---- MODULE Spec2Model ----
(***************************************************************************)
(* SecretVaultService: envelope encryption of secrets under cached DEKs,   *)
(* the default-DEK pointer, opportunistic re-encryption on read, and KEK   *)
(* rotation, as implemented by KeyManagementService, DEKService,           *)
(* SecretEncryptionService and SecretService.                              *)
(***************************************************************************)
EXTENDS Integers, Sequences, FiniteSets, TLC

\* ---------------------------------------------------------------- bounds
MaxDek == 2
InitDek == 2
MaxPlain == 2
MaxName == 1
MaxSecret == 1
MaxClient == 1
MaxAdmin == 1
MaxSpawn == 2
MaxVersion == 3
MaxHeaderVersion == 2
MaxNow == 2
MaxRow == 2
MaxIssued == 2
MaxFolder == 2
MaxFolderCall == 2

\* ------------------------------------------------------ program constants
SupportedAlgorithm == "AES-256-GCM"
HeaderVersion == 1
DefaultRowVersion == 1
FallbackDekId == 1
Keks == {"kek1", "kek2"}
EnvKekId == "kek1"

\* Config.JWT_SIGN_KEY before and after Config.initialize(), and a key the
\* process never held
\* process.env.KEK imported by Config.initialize(), and Config.KEK before that
LocalKek == "Config.KEK"
NoLocalKek == "null"
NoSignKey == "null"
ProcessKey == "JWT_SIGN_KEY"
ForeignKey == "foreign"

\* process.env.JWT_LIFETIME is text: absent, or decimal digits with or without
\* a unit of time
NoLifetime == [digits |-> 0, unit |-> "unset"]
Lifetimes == {NoLifetime, [digits |-> 2, unit |-> ""], [digits |-> 2, unit |-> "s"]}

\* the lifetime the login response announces, "1h", in seconds
OneHour == 3600

NoTime == 0 - 1
NoExp == 0 - 1
SeedSecret == "0000"
Passwords == {"0000", "pw"}
ClientNames == {"admin", "svc"}
RoleSets == {{}, {"reader"}}
PermSets == {{}, {"read"}, {"read", "write"}}

Clients == 1..MaxClient
Admins == 1..MaxAdmin
SecretIds == 1..MaxSecret
Plains == 1..MaxPlain
Names == 1..MaxName
FolderNames == 1..MaxFolder
FolderCallers == 1..MaxFolderCall

VARIABLES
    keys,           \* KeyManagementService.#keys : DEK id -> imported key
    defaultDekId,   \* KeyManagementService.defaultDekId (0 models null)
    defaultKekId,   \* Config.KMS.defaultKekId
    boot,           \* progress of KeyManagementService.initialize()
    dev,            \* Config.DEV, process.env.DEV == 'true'
    dekRows,        \* table dek : id -> row
    dekSeq,         \* serial4 sequence of dek.id
    keySeq,         \* number of raw keys drawn from the CSPRNG so far
    dekCall,        \* in-flight DEKService.generateDek calls, per caller
    kekCall,        \* in-flight KeyManagementService.rotateToNewKek calls, per caller
    secrets,        \* table secret : id -> row
    sidSeq,         \* number of secret ids (uuid v7) handed out so far
    call,           \* in-flight SecretService calls, per caller
    rotations,      \* background #scheduleRotation invocations not yet settled
    rotSeq,         \* number of #scheduleRotation invocations so far
    stamp,          \* clock read by `new Date()` in update(): rotation writes so far
    acked,          \* secret id -> plaintext last acknowledged by create/update
    ev,             \* the call that settled last, with its outcome
    clientRows,     \* table client : id -> row
    jwtSignKey,     \* Config.JWT_SIGN_KEY
    jwtLifetime,    \* Config.JWT_LIFETIME, the text of process.env.JWT_LIFETIME
    now,            \* Date.now() in seconds
    loginCall,      \* the in-flight ClientService.authenticate call
    issued,         \* tokens returned by authenticate, each with its time of issue
    folders,        \* table folder : id -> row
    folderSeq,      \* number of folder ids (uuid v7) handed out so far
    folderCall,     \* in-flight FolderService.update calls, per caller
    resp            \* the HTTP response sent last

vars == <<keys, defaultDekId, defaultKekId, boot, dev, dekRows, dekSeq, keySeq,
          dekCall, kekCall, secrets, sidSeq, call, rotations, rotSeq, stamp, acked, ev,
          clientRows, jwtSignKey, jwtLifetime, now, loginCall, issued, resp,
          folders, folderSeq, folderCall>>

kmsVars == <<keys, defaultDekId, defaultKekId, boot, dev>>
dekDbVars == <<dekRows, dekSeq, keySeq, dekCall, kekCall>>
secretVars == <<secrets, sidSeq, call, rotations, rotSeq, stamp, acked>>
authVars == <<clientRows, jwtSignKey, jwtLifetime, now, loginCall, issued, resp>>
folderVars == <<folders, folderSeq, folderCall>>

\* ------------------------------------------------------------ primitives
Max(S) == CHOOSE x \in S : \A y \in S : y <= x

Perms(S) ==
    { f \in [1..Cardinality(S) -> S] : \A i, j \in 1..Cardinality(S) : i # j => f[i] # f[j] }

RemoveAt(s, i) == SubSeq(s, 1, i - 1) \o SubSeq(s, i + 1, Len(s))

\* AES256GCM.importKey: a CryptoKey holding the raw bytes
ImportKey(raw) == [alg |-> "AES-GCM", raw |-> raw]

\* AES256GCM.encrypt: the sealed output opens only under the same key and AAD
AesEncrypt(data, key, aad) == [key |-> key.raw, aad |-> aad, data |-> data]

\* AES256GCM.decrypt: plaintext, or an authentication failure
AesDecrypt(sealed, key, aad) ==
    IF sealed.key = key.raw /\ sealed.aad = aad
    THEN [ok |-> TRUE, data |-> sealed.data]
    ELSE [ok |-> FALSE, data |-> 0]

\* MessagePack.encode of a header map: its fields in insertion order
MessagePackEncode(header) == <<"alg", header.alg, "version", header.version, "dekId", header.dekId>>

NoKey == ImportKey(0)
NoHeader == [alg |-> "", version |-> 0, dekId |-> 0]
NoPkg == [header |-> NoHeader, payload |-> AesEncrypt(0, NoKey, <<>>)]

\* KMS encrypt under the key named by kekId (wrapped bytes open only under it)
KmsEncrypt(raw, kekId) == [kek |-> kekId, raw |-> raw]

\* KMS decrypt under the key named by kekId
KmsDecrypt(wrapped, kekId) ==
    IF wrapped.kek = kekId THEN [ok |-> TRUE, raw |-> wrapped.raw]
    ELSE [ok |-> FALSE, raw |-> 0]

NoWrapped == KmsEncrypt(0, "")

\* crc32c.calculate
Crc32c(bytes) == [crc32c |-> bytes]

\* bytes altered on the way: a plaintext that is no longer the key, a
\* ciphertext that no KMS key opens
GarbledPlain(raw) == 0 - raw
GarbledCipher(wrapped) == [kek |-> "garbled", raw |-> wrapped.raw]

\* what the KMS and the network can do with an encrypt request
KmsAnswers == {"intact", "rejected", "requestCorrupted", "responseCorrupted"}

\* this.#client.encrypt({name: <path of kekId>, plaintext, plaintextCrc32c}):
\* the response as the client receives it; sentCrc is FALSE when the request
\* carries no plaintextCrc32c
ClientEncrypt(raw, kekId, sentCrc, answer) ==
    LET arrived == IF answer = "requestCorrupted" THEN GarbledPlain(raw) ELSE raw
        made == KmsEncrypt(arrived, kekId)
    IN [ok |-> answer # "rejected",
        ciphertext |-> IF answer = "responseCorrupted" THEN GarbledCipher(made) ELSE made,
        verifiedPlaintextCrc32c |-> sentCrc /\ Crc32c(arrived) = Crc32c(raw),
        ciphertextCrc32c |-> Crc32c(made)]

\* ------------------------------------------------- KeyManagementService
\* Config.KEK: null until Config.initialize() imports process.env.KEK, which it
\* does in development mode only (just before it imports the signing key)
ConfigKek == IF dev /\ jwtSignKey # NoSignKey THEN LocalKek ELSE NoLocalKek

\* #encryptDEKDev(plaintextKey): AES256GCM.encrypt(plaintextKey, Config.KEK)
EncryptDEKDev(raw) ==
    IF ConfigKek = NoLocalKek
    THEN [ok |-> FALSE, key |-> NoWrapped]
    ELSE [ok |-> TRUE, key |-> [kek |-> ConfigKek, raw |-> raw]]

\* #decryptDEKDev(encryptedKey): AES256GCM.decrypt(encryptedKey, Config.KEK),
\* which opens only what was sealed under Config.KEK
DecryptDEKDev(wrapped) ==
    IF ConfigKek # NoLocalKek /\ wrapped.kek = ConfigKek
    THEN [ok |-> TRUE, raw |-> wrapped.raw]
    ELSE [ok |-> FALSE, raw |-> 0]

\* encryptDEK(plaintextKey): wraps under Config.KMS[Config.KMS.defaultKekId],
\* or locally when Config.DEV
EncryptDEK(raw, answer) ==
    IF dev THEN EncryptDEKDev(raw)
    ELSE
    LET encryptResponse == ClientEncrypt(raw, defaultKekId, TRUE, answer)
    IN IF /\ encryptResponse.ok
          /\ encryptResponse.verifiedPlaintextCrc32c
          /\ Crc32c(encryptResponse.ciphertext) = encryptResponse.ciphertextCrc32c
       THEN [ok |-> TRUE, key |-> encryptResponse.ciphertext]
       ELSE [ok |-> FALSE, key |-> NoWrapped]

\* decryptDEK(encryptedKey, kekId = null): kekId || default KEK's keyId, or
\* locally when Config.DEV
DecryptDEK(wrapped, kekId) ==
    IF dev THEN DecryptDEKDev(wrapped)
    ELSE KmsDecrypt(wrapped, IF kekId = "" THEN defaultKekId ELSE kekId)

\* getKey(keyId): throws unless keyId is a number >= 1 present in #keys
GetKey(keyId) ==
    IF keyId < 1 THEN [ok |-> FALSE, key |-> NoKey]
    ELSE IF keyId \in DOMAIN keys THEN [ok |-> TRUE, key |-> keys[keyId]]
    ELSE [ok |-> FALSE, key |-> NoKey]

\* DEKService.getAllDeks(true): rows in the order the store returns them, each
\* key replaced by decryptDEK(dek.key); the first failing unwrap throws
GetAllDeks(order) ==
    LET un(i) == DecryptDEK(dekRows[order[i]].key, "")
    IN IF \A i \in 1..Len(order) : un(i).ok
       THEN [ok |-> TRUE,
             deks |-> [i \in 1..Len(order) |->
                         [id |-> order[i], key |-> un(i).raw,
                          kekId |-> dekRows[order[i]].kekId,
                          version |-> dekRows[order[i]].version]]]
       ELSE [ok |-> FALSE, deks |-> <<>>]

Event(op, ok, id, val) == [op |-> op, ok |-> ok, id |-> id, val |-> val]

\* the process is running: a rejected `await KeyManagementService.initialize()`
\* at the top level of the main module ends it
Alive == boot.pc # "failed"

\* #loadKeysFromDb, first half: await this.#dekService.getAllDeks(true)
StartupFetch ==
    /\ boot.pc = "off"
    /\ jwtSignKey # NoSignKey
    /\ UNCHANGED <<authVars, folderVars>>
    /\ \E order \in Perms(DOMAIN dekRows) :
         LET r == GetAllDeks(order)
         IN boot' = IF r.ok THEN [pc |-> "fetched", deks |-> r.deks]
                    ELSE [pc |-> "failed", deks |-> <<>>]
    /\ ev' = Event("fetchDeks", boot'.pc = "fetched", 0, 0)
    /\ UNCHANGED <<dev, keys, defaultDekId, defaultKekId, dekDbVars, secretVars>>

\* the default's choice in #loadKeysFromDb: deks[0]?.id || 1
LatestDekId(deks) == IF Len(deks) > 0 THEN deks[1].id ELSE FallbackDekId

\* #loadKeysFromDb, second half: import every key, then set defaultDekId
StartupLoad ==
    /\ Alive
    /\ UNCHANGED <<authVars, folderVars>>
    /\ boot.pc = "fetched"
    /\ LET ids == { boot.deks[i].id : i \in 1..Len(boot.deks) }
           keyOf(d) == (CHOOSE i \in 1..Len(boot.deks) : boot.deks[i].id = d)
       IN keys' = [d \in DOMAIN keys \cup ids |->
                     IF d \in ids THEN ImportKey(boot.deks[keyOf(d)].key) ELSE keys[d]]
    /\ defaultDekId' = LatestDekId(boot.deks)
    /\ boot' = [boot EXCEPT !.pc = "done"]
    /\ ev' = Event("initialize", TRUE, defaultDekId', 0)
    /\ UNCHANGED <<dev, defaultKekId, dekDbVars, secretVars>>

\* loadNewKey(dekId, dekKey): cache the imported key, then move the default
LoadNewKey(dekId) ==
    /\ Alive
    /\ UNCHANGED <<authVars, folderVars>>
    /\ dekId \in DOMAIN dekRows
    /\ dekId \notin DOMAIN keys
    /\ LET un == DecryptDEK(dekRows[dekId].key, "")
       IN /\ un.ok
          /\ keys' = [d \in DOMAIN keys \cup {dekId} |->
                        IF d = dekId THEN ImportKey(un.raw) ELSE keys[d]]
    /\ defaultDekId' = dekId
    /\ ev' = Event("loadNewKey", TRUE, dekId, 0)
    /\ UNCHANGED <<dev, defaultKekId, boot, dekDbVars, secretVars>>

\* ----------------------------------------------------------- DEKService
IdleDekCall == [pc |-> "idle", raw |-> 0, key |-> NoWrapped]

\* generateDek, up to `await KeyManagementService.encryptDEK(rawKey)`
GenerateDekWrap(c, answer) ==
    /\ Alive
    /\ UNCHANGED <<authVars, folderVars>>
    /\ dekCall[c].pc = "idle"
    /\ keySeq < MaxDek
    /\ keySeq' = keySeq + 1
    /\ LET encrypted == EncryptDEK(keySeq', answer)
       IN IF encrypted.ok
          THEN /\ dekCall' = [dekCall EXCEPT ![c] =
                                [pc |-> "wrapped", raw |-> keySeq', key |-> encrypted.key]]
               /\ UNCHANGED ev
          ELSE /\ ev' = Event("generateDek", FALSE, 0, keySeq')
               /\ UNCHANGED dekCall
    /\ UNCHANGED <<kmsVars, dekRows, dekSeq, kekCall, secretVars>>

\* generateDek, `return DEK.create({name, key, kekId: Config.KMS.defaultKekId})`;
\* dbOk is the store's answer (a duplicate name or a lost connection rejects)
GenerateDekCreate(c, dbOk) ==
    /\ Alive
    /\ UNCHANGED <<authVars, folderVars>>
    /\ dekCall[c].pc = "wrapped"
    /\ IF dbOk
       THEN /\ dekSeq' = dekSeq + 1
            /\ dekRows' = [d \in DOMAIN dekRows \cup {dekSeq'} |->
                             IF d = dekSeq'
                             THEN [key |-> dekCall[c].key, kekId |-> defaultKekId,
                                   version |-> DefaultRowVersion]
                             ELSE dekRows[d]]
            /\ ev' = Event("generateDek", TRUE, dekSeq', dekCall[c].raw)
       ELSE /\ UNCHANGED <<dekSeq, dekRows>>
            /\ ev' = Event("generateDek", FALSE, 0, dekCall[c].raw)
    /\ dekCall' = [dekCall EXCEPT ![c] = IdleDekCall]
    /\ UNCHANGED <<kmsVars, keySeq, kekCall, secretVars>>

\* deleteDek(id): `DEK.destroy({where: {id}})`; the store deletes the secrets
\* that reference the row (secret_dekId_fkey ... ON DELETE CASCADE); #keys is
\* not touched
DeleteDek(a, id) ==
    /\ Alive
    /\ UNCHANGED <<authVars, folderVars>>
    /\ dekCall[a].pc = "idle"
    /\ dekRows' = [d \in DOMAIN dekRows \ {id} |-> dekRows[d]]
    /\ secrets' = [s \in {t \in DOMAIN secrets : secrets[t].dekId # id} |-> secrets[s]]
    /\ ev' = Event("deleteDek", id \in DOMAIN dekRows, id, 0)
    /\ UNCHANGED <<kmsVars, dekSeq, keySeq, dekCall, kekCall,
                   sidSeq, call, rotations, rotSeq, stamp, acked>>

\* ------------------------------------------------------------ KEK rotation
IdleKekCall ==
    [pc |-> "idle", newKekId |-> "", deks |-> <<>>, idx |-> 0, wrapped |-> NoWrapped,
     success |-> 0, failures |-> <<>>]

\* the DEK the loop of reencryptAllDeksWithNewKek is processing
CurrentDek(a) == kekCall[a].deks[kekCall[a].idx]

\* a null oldKekId
NoOldKek == ""

\* `oldKekId ? deks.filter((dek) => dek.kekId === oldKekId) : deks`
DeksToReencrypt(deks, oldKekId) ==
    IF oldKekId = NoOldKek
    THEN deks
    ELSE SelectSeq(deks, LAMBDA dek : dek.kekId = oldKekId)

\* reencryptAllDeksWithNewKek(newKekId, oldKekId = null), up to
\* `await dekService.getAllDeks(true)` and the filter on its answer; a failing
\* fetch rejects the whole call
ReencryptAllDeksWithNewKek(a, newKekId, oldKekId) ==
    /\ Alive
    /\ UNCHANGED <<authVars, folderVars>>
    /\ kekCall[a].pc = "idle"
    /\ \A d \in DOMAIN dekRows : dekRows[d].version < MaxVersion
    /\ \E order \in Perms(DOMAIN dekRows) :
         LET r == GetAllDeks(order)
         IN IF r.ok
            THEN /\ kekCall' = [kekCall EXCEPT ![a] =
                                  [IdleKekCall EXCEPT !.pc = "loop", !.newKekId = newKekId,
                                                      !.deks = DeksToReencrypt(r.deks, oldKekId),
                                                      !.idx = 1]]
                 /\ UNCHANGED ev
            ELSE /\ ev' = Event("rotateToNewKek", FALSE, 0, 0)
                 /\ UNCHANGED kekCall
    /\ UNCHANGED <<kmsVars, dekRows, dekSeq, keySeq, dekCall, secretVars>>

\* rotateToNewKek(newKekId): `await this.reencryptAllDeksWithNewKek(newKekId)`,
\* so the callee's oldKekId takes its default
KekFetch(a, newKekId) == ReencryptAllDeksWithNewKek(a, newKekId, NoOldKek)

\* the loop's catch: record the failure and go on with the next DEK
KekFailed(a) ==
    [kekCall[a] EXCEPT !.pc = "loop", !.idx = @ + 1, !.wrapped = NoWrapped,
                       !.failures = Append(@, CurrentDek(a).id)]

\* results.success++ and on to the next DEK
KekSucceeded(a) ==
    [kekCall[a] EXCEPT !.pc = "loop", !.idx = @ + 1, !.wrapped = NoWrapped,
                       !.success = @ + 1]

\* `await this.#client.encrypt({name: <path of newKekId>, plaintext: rawDek})`:
\* no plaintextCrc32c in the request, and reencrypted[0].ciphertext taken as it comes
KekEncrypt(a, answer) ==
    /\ Alive
    /\ UNCHANGED <<authVars, folderVars>>
    /\ kekCall[a].pc = "loop"
    /\ kekCall[a].idx <= Len(kekCall[a].deks)
    /\ LET reencrypted == ClientEncrypt(CurrentDek(a).key, kekCall[a].newKekId, FALSE, answer)
       IN kekCall' = [kekCall EXCEPT ![a] =
                        IF reencrypted.ok
                        THEN [@ EXCEPT !.pc = "encrypted", !.wrapped = reencrypted.ciphertext]
                        ELSE KekFailed(a)]
    /\ UNCHANGED <<kmsVars, dekRows, dekSeq, keySeq, dekCall, secretVars, ev>>

\* the loop body as it would be if the cache refresh that follows DEK.update
\* threw for a cached DEK: the row is written and the DEK lands in failures
KekWriteImportFails(a, dbOk) ==
    /\ Alive
    /\ UNCHANGED <<authVars, folderVars>>
    /\ kekCall[a].pc = "encrypted"
    /\ LET dek == CurrentDek(a)
       IN IF dbOk
          THEN /\ dekRows' = IF dek.id \in DOMAIN dekRows
                             THEN [dekRows EXCEPT ![dek.id] =
                                     [key |-> kekCall[a].wrapped,
                                      kekId |-> kekCall[a].newKekId,
                                      version |-> dek.version + 1]]
                             ELSE dekRows
               /\ kekCall' = [kekCall EXCEPT ![a] =
                                IF dek.id \in DOMAIN keys
                                THEN KekFailed(a)
                                ELSE KekSucceeded(a)]
          ELSE /\ kekCall' = [kekCall EXCEPT ![a] = KekFailed(a)]
               /\ UNCHANGED dekRows
    /\ UNCHANGED <<kmsVars, dekSeq, keySeq, dekCall, secretVars, ev>>

\* `await DEK.update({key, kekId: newKekId, version: dek.version + 1}, {where: {id}})`
\* and the test `this.#keys.has(dek.id)` that follows it
KekWrite(a, dbOk) ==
    /\ Alive
    /\ UNCHANGED <<authVars, folderVars>>
    /\ kekCall[a].pc = "encrypted"
    /\ LET dek == CurrentDek(a)
       IN IF dbOk
          THEN /\ dekRows' = IF dek.id \in DOMAIN dekRows
                             THEN [dekRows EXCEPT ![dek.id] =
                                     [key |-> kekCall[a].wrapped,
                                      kekId |-> kekCall[a].newKekId,
                                      version |-> dek.version + 1]]
                             ELSE dekRows
               /\ kekCall' = [kekCall EXCEPT ![a] =
                                IF dek.id \in DOMAIN keys
                                THEN [@ EXCEPT !.pc = "importing"]
                                ELSE KekSucceeded(a)]
          ELSE /\ kekCall' = [kekCall EXCEPT ![a] = KekFailed(a)]
               /\ UNCHANGED dekRows
    /\ UNCHANGED <<kmsVars, dekSeq, keySeq, dekCall, secretVars, ev>>

\* the cache refresh as it would be through loadNewKey(dek.id, rawDek), which
\* also moves the default DEK id
KekCacheViaLoadNewKey(a) ==
    /\ Alive
    /\ UNCHANGED <<authVars, folderVars>>
    /\ kekCall[a].pc = "importing"
    /\ LET dek == CurrentDek(a)
       IN /\ keys' = [d \in DOMAIN keys \cup {dek.id} |->
                        IF d = dek.id THEN ImportKey(dek.key) ELSE keys[d]]
          /\ defaultDekId' = dek.id
    /\ kekCall' = [kekCall EXCEPT ![a] = KekSucceeded(a)]
    /\ UNCHANGED <<dev, defaultKekId, boot, dekRows, dekSeq, keySeq, dekCall, secretVars, ev>>

\* `this.#keys.set(dek.id, await AES256GCM.importKey(rawDek))`
KekCache(a) ==
    /\ Alive
    /\ UNCHANGED <<authVars, folderVars>>
    /\ kekCall[a].pc = "importing"
    /\ LET dek == CurrentDek(a)
       IN keys' = [d \in DOMAIN keys \cup {dek.id} |->
                     IF d = dek.id THEN ImportKey(dek.key) ELSE keys[d]]
    /\ kekCall' = [kekCall EXCEPT ![a] = KekSucceeded(a)]
    /\ UNCHANGED <<dev, defaultDekId, defaultKekId, boot, dekRows, dekSeq, keySeq, dekCall,
                   secretVars, ev>>

\* rotateToNewKek as it would be without its assignment to Config.KMS.defaultKekId
KekFinishKeepDefault(a) ==
    /\ Alive
    /\ UNCHANGED <<authVars, folderVars>>
    /\ kekCall[a].pc = "loop"
    /\ kekCall[a].idx > Len(kekCall[a].deks)
    /\ ev' = Event("rotateToNewKek", TRUE, kekCall[a].success, Len(kekCall[a].failures))
    /\ kekCall' = [kekCall EXCEPT ![a] = IdleKekCall]
    /\ UNCHANGED <<kmsVars, dekRows, dekSeq, keySeq, dekCall, secretVars>>

\* the loop is over: rotateToNewKek sets Config.KMS.defaultKekId and returns
KekFinish(a) ==
    /\ Alive
    /\ UNCHANGED <<authVars, folderVars>>
    /\ kekCall[a].pc = "loop"
    /\ kekCall[a].idx > Len(kekCall[a].deks)
    /\ defaultKekId' = kekCall[a].newKekId
    /\ ev' = Event("rotateToNewKek", TRUE, kekCall[a].success, Len(kekCall[a].failures))
    /\ kekCall' = [kekCall EXCEPT ![a] = IdleKekCall]
    /\ UNCHANGED <<dev, keys, defaultDekId, boot, dekRows, dekSeq, keySeq, dekCall, secretVars>>

\* ---------------------------------------------- SecretEncryptionService
Header(dekId) == [alg |-> SupportedAlgorithm, version |-> HeaderVersion, dekId |-> dekId]

\* encryptSecret as it would be if it took the key of the default DEK whatever
\* dekId it was given
EncryptSecretDefaultKey(plaintext, dekId) ==
    LET id == IF dekId = 0 THEN defaultDekId ELSE dekId
        dek == GetKey(defaultDekId)
        header == Header(id)
    IN IF plaintext = 0 \/ ~dek.ok
       THEN [ok |-> FALSE, pkg |-> NoPkg]
       ELSE [ok |-> TRUE,
             pkg |-> [header |-> header,
                      payload |-> AesEncrypt(plaintext, dek.key, MessagePackEncode(header))]]

\* encryptSecret(plaintext, dekId = null); 0 models a null dekId / empty plaintext
EncryptSecret(plaintext, dekId) ==
    LET id == IF dekId = 0 THEN defaultDekId ELSE dekId
        dek == GetKey(id)
        header == Header(id)
    IN IF plaintext = 0 \/ ~dek.ok
       THEN [ok |-> FALSE, pkg |-> NoPkg]
       ELSE [ok |-> TRUE,
             pkg |-> [header |-> header,
                      payload |-> AesEncrypt(plaintext, dek.key, MessagePackEncode(header))]]

\* decryptSecret(encryptedPackageBytes, expectedDekId); 0 models a null or absent
\* expectedDekId, which `expectedDekId !== header.dekId` compares like any value
DecryptSecret(pkg, expectedDekId) ==
    LET header == pkg.header
        dek == GetKey(header.dekId)
        opened == AesDecrypt(pkg.payload, dek.key, MessagePackEncode(header))
        failed == [ok |-> FALSE, secret |-> 0, header |-> header]
    IN IF header.alg # SupportedAlgorithm THEN failed
       ELSE IF header.version > defaultDekId THEN failed
       ELSE IF expectedDekId # header.dekId THEN failed
       ELSE IF ~dek.ok THEN failed
       ELSE IF ~opened.ok THEN failed
       ELSE [ok |-> TRUE, secret |-> opened.data, header |-> header]

\* decryptSecret: the check that rejects the package ("none" when it decrypts)
DecryptSecretRejection(pkg, expectedDekId) ==
    LET header == pkg.header
        dek == GetKey(header.dekId)
    IN IF header.alg # SupportedAlgorithm THEN "alg"
       ELSE IF header.version > defaultDekId THEN "version"
       ELSE IF expectedDekId # header.dekId THEN "dekId"
       ELSE IF ~dek.ok THEN "key"
       ELSE IF ~AesDecrypt(pkg.payload, dek.key, MessagePackEncode(header)).ok THEN "auth"
       ELSE "none"

\* a package as a writer of header version v would build it for DEK d
PackageOfVersion(v, d, plaintext) ==
    LET header == [alg |-> SupportedAlgorithm, version |-> v, dekId |-> d]
    IN [header |-> header,
        payload |-> AesEncrypt(plaintext, GetKey(d).key, MessagePackEncode(header))]

\* ---------------------------------------------------------- SecretService
IdleCall == [pc |-> "idle", name |-> 0, sid |-> 0, plain |-> 0, pkg |-> NoPkg, dekId |-> 0]

\* Secret.findOne({ where: isUUID ? { id } : { name } })
FindOne(isUUID, identifier) ==
    { s \in DOMAIN secrets : IF isUUID THEN s = identifier ELSE secrets[s].name = identifier }

\* create(name, plaintext), up to `await SecretEncryptionService.encryptSecret(..)`
CreateEncrypt(c, name, plaintext) ==
    /\ Alive
    /\ UNCHANGED <<authVars, folderVars>>
    /\ call[c].pc = "idle"
    /\ \/ sidSeq + Cardinality({ k \in Clients : call[k].pc = "createEncrypted" }) < MaxSecret
       \/ FindOne(FALSE, name) # {}
    /\ LET encrypted == EncryptSecret(plaintext, 0)
       IN IF encrypted.ok
          THEN /\ call' = [call EXCEPT ![c] =
                            [IdleCall EXCEPT !.pc = "createEncrypted", !.name = name,
                                             !.plain = plaintext, !.pkg = encrypted.pkg]]
               /\ UNCHANGED ev
          ELSE /\ ev' = Event("create", FALSE, 0, plaintext)
               /\ UNCHANGED call
    /\ UNCHANGED <<kmsVars, dekDbVars, secrets, sidSeq, rotations, rotSeq, stamp, acked>>

\* create, `await Secret.create({name, data, dekId: KeyManagementService.defaultDekId})`:
\* the row inserted (unique name, dekId references dek.id), or the store's error
CreateWrite(c, dbOk) ==
    /\ Alive
    /\ UNCHANGED <<authVars, folderVars>>
    /\ call[c].pc = "createEncrypted"
    /\ LET dekId == defaultDekId
           id == sidSeq + 1
           inserted == /\ dbOk
                       /\ FindOne(FALSE, call[c].name) = {}
                       /\ dekId \in DOMAIN dekRows
       IN IF inserted
          THEN /\ secrets' = [s \in DOMAIN secrets \cup {id} |->
                                IF s = id
                                THEN [name |-> call[c].name, data |-> call[c].pkg,
                                      dekId |-> dekId, lastRotation |-> 0]
                                ELSE secrets[s]]
               /\ sidSeq' = id
               /\ acked' = [s \in DOMAIN acked \cup {id} |->
                              IF s = id THEN [plain |-> call[c].plain, by |-> "create"]
                              ELSE acked[s]]
               /\ ev' = Event("create", TRUE, id, call[c].plain)
          ELSE /\ ev' = Event("create", FALSE, 0, call[c].plain)
               /\ UNCHANGED <<secrets, sidSeq, acked>>
    /\ call' = [call EXCEPT ![c] = IdleCall]
    /\ UNCHANGED <<kmsVars, dekDbVars, rotations, rotSeq, stamp>>

\* get(identifier, isUUID), up to `await SecretEncryptionService.decryptSecret(..)`
GetFind(c, isUUID, identifier) ==
    /\ Alive
    /\ UNCHANGED <<authVars, folderVars>>
    /\ call[c].pc = "idle"
    /\ LET found == FindOne(isUUID, identifier)
       IN IF found = {}
          THEN /\ ev' = Event("get", FALSE, 0, 0)
               /\ UNCHANGED call
          ELSE LET id == CHOOSE s \in found : TRUE
                   secret == secrets[id]
                   decrypted == DecryptSecret(secret.data, secret.dekId)
               IN IF decrypted.ok
                  THEN /\ call' = [call EXCEPT ![c] =
                                    [pc |-> "getDecrypted", name |-> secret.name, sid |-> id,
                                     plain |-> decrypted.secret, pkg |-> secret.data,
                                     dekId |-> secret.dekId]]
                       /\ UNCHANGED ev
                  ELSE /\ ev' = Event("get", FALSE, id, 0)
                       /\ UNCHANGED call
    /\ UNCHANGED <<kmsVars, dekDbVars, secrets, sidSeq, rotations, rotSeq, stamp, acked>>

\* #scheduleRotation(secretId, secretName, decryptedData), up to its first await
\* (the 100 ms timer): one more pending background invocation
ScheduleRotation(secretId, secretName, decryptedData) ==
    /\ rotSeq < MaxSpawn
    /\ rotSeq' = rotSeq + 1
    /\ rotations' = Append(rotations,
                           [n |-> rotSeq', pc |-> "sleep", sid |-> secretId,
                            name |-> secretName, plain |-> decryptedData,
                            seen |-> defaultDekId, pkg |-> NoPkg])

\* get as it would be with `await this.#scheduleRotation(..)`: the re-encryption
\* and its write happen before the read returns
GetReturnAwaiting(c) ==
    /\ Alive
    /\ UNCHANGED <<authVars, folderVars>>
    /\ call[c].pc = "getDecrypted"
    /\ IF call[c].pkg.header.dekId # defaultDekId
       THEN LET encrypted == EncryptSecret(call[c].plain, 0)
                affected == encrypted.ok /\ call[c].sid \in DOMAIN secrets
            IN /\ secrets' = IF affected
                             THEN [secrets EXCEPT ![call[c].sid] =
                                     [@ EXCEPT !.data = encrypted.pkg, !.dekId = defaultDekId,
                                               !.lastRotation = stamp + 1]]
                             ELSE secrets
               /\ stamp' = IF affected THEN stamp + 1 ELSE stamp
       ELSE UNCHANGED <<secrets, stamp>>
    /\ ev' = Event("get", TRUE, call[c].sid, call[c].plain)
    /\ call' = [call EXCEPT ![c] = IdleCall]
    /\ UNCHANGED <<kmsVars, dekDbVars, sidSeq, rotations, rotSeq, acked>>

\* get, after decryptSecret: schedule a rotation if the header's DEK is not the
\* default, and return {id, name, data, dekId}
GetReturn(c) ==
    /\ Alive
    /\ UNCHANGED <<authVars, folderVars>>
    /\ call[c].pc = "getDecrypted"
    /\ IF call[c].pkg.header.dekId # defaultDekId
       THEN ScheduleRotation(call[c].sid, call[c].name, call[c].plain)
       ELSE UNCHANGED <<rotations, rotSeq>>
    /\ ev' = Event("get", TRUE, call[c].sid, call[c].plain)
    /\ call' = [call EXCEPT ![c] = IdleCall]
    /\ UNCHANGED <<kmsVars, dekDbVars, secrets, sidSeq, stamp, acked>>

\* update() as it would be without the dekId column in dataToUpdate
SecretUpdateDataOnly(id, encrypted, isRotation, dbOk) ==
    LET affected == dbOk /\ id \in DOMAIN secrets
    IN [ok |-> affected,
        rows |-> IF affected
                 THEN [secrets EXCEPT ![id] =
                         [@ EXCEPT !.data = encrypted,
                                   !.lastRotation = IF isRotation THEN stamp + 1 ELSE @]]
                 ELSE secrets]

\* update(): `Secret.update(dataToUpdate, {where: {id}})` with dataToUpdate =
\* {data, dekId: KeyManagementService.defaultDekId, lastRotation?}; ok is
\* affectedCount > 0 without a store error
SecretUpdate(id, encrypted, isRotation, dbOk) ==
    LET dekId == defaultDekId
        affected == dbOk /\ dekId \in DOMAIN dekRows /\ id \in DOMAIN secrets
    IN [ok |-> affected,
        rows |-> IF affected
                 THEN [secrets EXCEPT ![id] =
                         [@ EXCEPT !.data = encrypted, !.dekId = dekId,
                                   !.lastRotation = IF isRotation THEN stamp + 1 ELSE @]]
                 ELSE secrets]

\* update(id, name, newPlaintext), up to `await encryptSecret(..)`
UpdateEncrypt(c, id, name, newPlaintext) ==
    /\ Alive
    /\ UNCHANGED <<authVars, folderVars>>
    /\ call[c].pc = "idle"
    /\ LET encrypted == EncryptSecret(newPlaintext, 0)
       IN IF encrypted.ok
          THEN /\ call' = [call EXCEPT ![c] =
                            [IdleCall EXCEPT !.pc = "updateEncrypted", !.name = name,
                                             !.sid = id, !.plain = newPlaintext,
                                             !.pkg = encrypted.pkg]]
               /\ UNCHANGED ev
          ELSE /\ ev' = Event("update", FALSE, id, newPlaintext)
               /\ UNCHANGED call
    /\ UNCHANGED <<kmsVars, dekDbVars, secrets, sidSeq, rotations, rotSeq, stamp, acked>>

\* update, the write and the affectedCount check
UpdateWrite(c, dbOk) ==
    /\ Alive
    /\ UNCHANGED <<authVars, folderVars>>
    /\ call[c].pc = "updateEncrypted"
    /\ LET r == SecretUpdate(call[c].sid, call[c].pkg, FALSE, dbOk)
       IN /\ secrets' = r.rows
          /\ acked' = IF r.ok
                       THEN [acked EXCEPT ![call[c].sid] =
                               [plain |-> call[c].plain, by |-> "update"]]
                       ELSE acked
          /\ ev' = Event("update", r.ok, call[c].sid, call[c].plain)
    /\ call' = [call EXCEPT ![c] = IdleCall]
    /\ UNCHANGED <<kmsVars, dekDbVars, sidSeq, rotations, rotSeq, stamp>>

\* delete(id): Secret.destroy({ where: { id } })
Delete(c, id) ==
    /\ Alive
    /\ UNCHANGED <<authVars, folderVars>>
    /\ call[c].pc = "idle"
    /\ secrets' = [s \in DOMAIN secrets \ {id} |-> secrets[s]]
    /\ acked' = [s \in DOMAIN acked \ {id} |-> acked[s]]
    /\ ev' = Event("delete", id \in DOMAIN secrets, id, 0)
    /\ UNCHANGED <<kmsVars, dekDbVars, sidSeq, call, rotations, rotSeq, stamp>>

\* #scheduleRotation as it would be with a retry in its catch
RotationRetried(i, ok) ==
    /\ rotations' = IF ok THEN RemoveAt(rotations, i)
                    ELSE [rotations EXCEPT ![i].pc = "sleep", ![i].pkg = NoPkg]
    /\ ev' = Event("rotation", ok, rotations[i].sid, rotations[i].n)

\* #scheduleRotation's catch / normal end: the invocation is over, whatever the
\* outcome (`// No Retry`)
RotationSettled(i, ok) ==
    /\ rotations' = RemoveAt(rotations, i)
    /\ ev' = Event("rotation", ok, rotations[i].sid, rotations[i].n)

\* #scheduleRotation after the timer: update(secretId, secretName, data, true),
\* up to `await encryptSecret(..)`
RotationEncrypt(i) ==
    /\ Alive
    /\ UNCHANGED <<authVars, folderVars>>
    /\ i \in 1..Len(rotations)
    /\ rotations[i].pc = "sleep"
    /\ LET encrypted == EncryptSecret(rotations[i].plain, 0)
       IN IF encrypted.ok
          THEN /\ rotations' = [rotations EXCEPT ![i].pc = "encrypted",
                                                 ![i].pkg = encrypted.pkg]
               /\ UNCHANGED ev
          ELSE RotationSettled(i, FALSE)
    /\ UNCHANGED <<kmsVars, dekDbVars, secrets, sidSeq, call, rotSeq, stamp, acked>>

\* the rotation's write as it would be through an upsert (insert the row when
\* no row has the id) instead of `Secret.update(.., {where: {id}})`
RotationWriteUpsert(i, dbOk) ==
    /\ Alive
    /\ UNCHANGED <<authVars, folderVars>>
    /\ i \in 1..Len(rotations)
    /\ rotations[i].pc = "encrypted"
    /\ LET sid == rotations[i].sid
           written == dbOk /\ defaultDekId \in DOMAIN dekRows
       IN /\ secrets' = IF written
                         THEN [s \in DOMAIN secrets \cup {sid} |->
                                 IF s = sid
                                 THEN [name |-> rotations[i].name, data |-> rotations[i].pkg,
                                       dekId |-> defaultDekId, lastRotation |-> stamp + 1]
                                 ELSE secrets[s]]
                         ELSE secrets
          /\ stamp' = IF written THEN stamp + 1 ELSE stamp
          /\ RotationSettled(i, written)
    /\ UNCHANGED <<kmsVars, dekDbVars, sidSeq, call, rotSeq, acked>>

\* #scheduleRotation: update's write, then the log line or the catch
RotationWrite(i, dbOk) ==
    /\ Alive
    /\ UNCHANGED <<authVars, folderVars>>
    /\ i \in 1..Len(rotations)
    /\ rotations[i].pc = "encrypted"
    /\ LET r == SecretUpdate(rotations[i].sid, rotations[i].pkg, TRUE, dbOk)
       IN /\ secrets' = r.rows
          /\ stamp' = IF r.ok THEN stamp + 1 ELSE stamp
          /\ RotationSettled(i, r.ok)
    /\ UNCHANGED <<kmsVars, dekDbVars, sidSeq, call, rotSeq, acked>>

\* -------------------------------------------------------------- JWT
NoPayload == [clientId |-> 0, roles |-> {}, permissions |-> {}, exp |-> NoExp]
NoSig == [key |-> "none", alg |-> "none", payload |-> NoPayload]
NoToken == [alg |-> "none", payload |-> NoPayload, sig |-> NoSig]

\* HMAC over the protected header and the payload
Hmac(key, alg, payload) == [key |-> key, alg |-> alg, payload |-> payload]

\* `Math.floor(Date.now() / 1000) + expiresIn` with expiresIn a string: the
\* decimal text of the clock followed by the text of the lifetime
StrConcat(seconds, lifetime) ==
    [digits |-> seconds * 10 + lifetime.digits, unit |-> lifetime.unit]

\* jose's reading of a string given to setExpirationTime: a time span, which
\* needs a unit
Secs(span) ==
    IF span.unit = "s" THEN [ok |-> TRUE, secs |-> span.digits]
    ELSE [ok |-> FALSE, secs |-> 0]

\* JWT.sign(payload, key, expiresIn)
JwtSign(payload, key, expiresIn, clock) ==
    LET span == Secs(StrConcat(clock, expiresIn))
        exp == IF expiresIn = NoLifetime THEN NoExp ELSE clock + span.secs
        full == [payload EXCEPT !.exp = exp]
    IN IF key = NoSignKey \/ (expiresIn # NoLifetime /\ ~span.ok)
       THEN [ok |-> FALSE, token |-> NoToken]
       ELSE [ok |-> TRUE,
             token |-> [alg |-> "HS256", payload |-> full,
                        sig |-> Hmac(key, "HS256", full)]]

\* JWT.verify(token, key): jwtVerify with no options
JwtVerify(token, key, clock) ==
    IF /\ key # NoSignKey
       /\ token.alg = "HS256"
       /\ token.sig = Hmac(key, token.alg, token.payload)
       /\ (token.payload.exp = NoExp \/ token.payload.exp > clock)
    THEN [isValid |-> TRUE, payload |-> token.payload]
    ELSE [isValid |-> FALSE, payload |-> NoPayload]

\* ---------------------------------------------------------- ClientService
\* argon2.hash / argon2.verify
Argon2Hash(secret) == [argon2id |-> secret]
Argon2Verify(hash, secret) == hash = Argon2Hash(secret)

NoRow == [name |-> "", hashedSecret |-> Argon2Hash(""), isActive |-> FALSE,
          roles |-> {}, permissions |-> {}, lastUsedAt |-> NoTime]

\* the row inserted with the schema
SeedRow == [name |-> "admin", hashedSecret |-> Argon2Hash(SeedSecret), isActive |-> TRUE,
            roles |-> {"*"}, permissions |-> {"*"}, lastUsedAt |-> NoTime]

\* Client.findOne({ where: { name } }): the id of the row, 0 for null
FindByName(name) ==
    IF \E i \in DOMAIN clientRows : clientRows[i].name = name
    THEN CHOOSE i \in DOMAIN clientRows : clientRows[i].name = name
    ELSE 0

Err(text, items) == [text |-> text, items |-> items]
NoErr == Err("", {})
Resp(op, status, error) == [op |-> op, status |-> status, error |-> error]

IdleLogin == [pc |-> "idle", id |-> 0, row |-> NoRow, secret |-> ""]

\* authenticate telling a disabled client from an unknown one
AuthenticateFindTelling(name, secret) ==
    /\ Alive
    /\ loginCall.pc = "idle"
    /\ Cardinality(issued) < MaxIssued
    /\ LET id == FindByName(name)
       IN IF id = 0
          THEN /\ resp' = Resp("login", 401, Err("Invalid client credentials", {}))
               /\ UNCHANGED loginCall
          ELSE IF ~clientRows[id].isActive
          THEN /\ resp' = Resp("login", 401, Err("Client account is inactive", {}))
               /\ UNCHANGED loginCall
          ELSE /\ loginCall' = [pc |-> "found", id |-> id, row |-> clientRows[id],
                                secret |-> secret]
               /\ UNCHANGED resp
    /\ UNCHANGED <<clientRows, jwtSignKey, jwtLifetime, now, issued>>
    /\ UNCHANGED <<kmsVars, dekDbVars, secretVars, folderVars, ev>>

\* authenticate, up to the check that follows `await Client.findOne`
AuthenticateFind(name, secret) ==
    /\ Alive
    /\ loginCall.pc = "idle"
    /\ Cardinality(issued) < MaxIssued
    /\ LET id == FindByName(name)
       IN IF id = 0 \/ ~clientRows[id].isActive
          THEN /\ resp' = Resp("login", 401, Err("Invalid client credentials", {}))
               /\ UNCHANGED loginCall
          ELSE /\ loginCall' = [pc |-> "found", id |-> id, row |-> clientRows[id],
                                secret |-> secret]
               /\ UNCHANGED resp
    /\ UNCHANGED <<clientRows, jwtSignKey, jwtLifetime, now, issued>>
    /\ UNCHANGED <<kmsVars, dekDbVars, secretVars, folderVars, ev>>

\* authenticate with the row saved whole, as read, after the verification
AuthenticateIssueFullSave ==
    /\ Alive
    /\ loginCall.pc = "found"
    /\ loginCall' = IdleLogin
    /\ LET client == loginCall.row
           signed == JwtSign([clientId |-> loginCall.id, roles |-> client.roles,
                              permissions |-> client.permissions, exp |-> NoExp],
                             jwtSignKey, jwtLifetime, now)
       IN IF ~Argon2Verify(client.hashedSecret, loginCall.secret)
          THEN /\ resp' = Resp("login", 401, Err("Invalid client credentials", {}))
               /\ UNCHANGED <<clientRows, issued>>
          ELSE /\ clientRows' = [clientRows EXCEPT ![loginCall.id] =
                                   [client EXCEPT !.lastUsedAt = now]]
               /\ IF signed.ok
                  THEN /\ issued' = issued \cup {[token |-> signed.token, at |-> now]}
                       /\ resp' = Resp("login", 200, NoErr)
                  ELSE /\ resp' = Resp("login", 500, Err("Internal Server Error", {}))
                       /\ UNCHANGED issued
    /\ UNCHANGED <<jwtSignKey, jwtLifetime, now>>
    /\ UNCHANGED <<kmsVars, dekDbVars, secretVars, folderVars, ev>>

\* authenticate, the rest: argon2.verify, client.update({ lastUsedAt }), JWT.sign
AuthenticateIssue ==
    /\ Alive
    /\ loginCall.pc = "found"
    /\ loginCall' = IdleLogin
    /\ LET client == loginCall.row
           signed == JwtSign([clientId |-> loginCall.id, roles |-> client.roles,
                              permissions |-> client.permissions, exp |-> NoExp],
                             jwtSignKey, jwtLifetime, now)
       IN IF ~Argon2Verify(client.hashedSecret, loginCall.secret)
          THEN /\ resp' = Resp("login", 401, Err("Invalid client credentials", {}))
               /\ UNCHANGED <<clientRows, issued>>
          ELSE /\ clientRows' = [clientRows EXCEPT ![loginCall.id].lastUsedAt = now]
               /\ IF signed.ok
                  THEN /\ issued' = issued \cup {[token |-> signed.token, at |-> now]}
                       /\ resp' = Resp("login", 200, NoErr)
                  ELSE /\ resp' = Resp("login", 500, Err("Internal Server Error", {}))
                       /\ UNCHANGED issued
    /\ UNCHANGED <<jwtSignKey, jwtLifetime, now>>
    /\ UNCHANGED <<kmsVars, dekDbVars, secretVars, folderVars, ev>>

\* ------------------------------------------------------------- Authorize
NoOptions == [roles |-> {}, permissions |-> {}, requireAllPermissions |-> FALSE]
\* a guard that asks for a client and for no role
AnyClient == [roles |-> {}, permissions |-> {}, requireAllPermissions |-> FALSE]

AdminOnly == [roles |-> {"*"}, permissions |-> {}, requireAllPermissions |-> FALSE]

NoAuthHeader == [scheme |-> "none", token |-> NoToken]
Bearer(token) == [scheme |-> "Bearer", token |-> token]

Verdict(next, status, error) == [next |-> next, status |-> status, error |-> error]

\* options.permissions.every(permission => clientPermissions.includes(permission))
HasAllPermissionsAsAny(required, held) == \E permission \in required : permission \in held

HasAllPermissions(required, held) == \A permission \in required : permission \in held

\* options.permissions.some(permission => clientPermissions.includes(permission))
HasAnyPermission(required, held) == \E permission \in required : permission \in held

\* the middleware with the client's state looked at after the requirements
AuthorizeActiveLast(options, h) ==
    LET v == JwtVerify(h.token, jwtSignKey, now)
        payload == v.payload
        known == payload.clientId \in DOMAIN clientRows
    IN IF h.scheme # "Bearer"
       THEN Verdict(FALSE, 401, Err("Authentication required", {}))
       ELSE IF ~v.isValid
       THEN Verdict(FALSE, 401, Err("Invalid or expired token", {}))
       ELSE IF options.roles # {} /\ options.roles \cap payload.roles = {}
       THEN Verdict(FALSE, 403, Err("Required roles", options.roles))
       ELSE IF /\ options.permissions # {}
               /\ options.requireAllPermissions
               /\ ~HasAllPermissions(options.permissions, payload.permissions)
       THEN Verdict(FALSE, 403, Err("Required all permissions", options.permissions))
       ELSE IF /\ options.permissions # {}
               /\ ~options.requireAllPermissions
               /\ ~HasAnyPermission(options.permissions, payload.permissions)
       THEN Verdict(FALSE, 403, Err("Required any of these permissions", options.permissions))
       ELSE IF ~known \/ ~clientRows[payload.clientId].isActive
       THEN Verdict(FALSE, 401, Err("Client account is inactive", {}))
       ELSE Verdict(TRUE, 200, NoErr)

\* the middleware returned by Authorize(options), run on a request with
\* Authorization header h: what it throws, or that it calls next()
Authorize(options, h) ==
    LET v == JwtVerify(h.token, jwtSignKey, now)
        payload == v.payload
        known == payload.clientId \in DOMAIN clientRows
    IN IF h.scheme # "Bearer"
       THEN Verdict(FALSE, 401, Err("Authentication required", {}))
       ELSE IF ~v.isValid
       THEN Verdict(FALSE, 401, Err("Invalid or expired token", {}))
       ELSE IF ~known \/ ~clientRows[payload.clientId].isActive
       THEN Verdict(FALSE, 401, Err("Client account is inactive", {}))
       ELSE IF options.roles # {} /\ options.roles \cap payload.roles = {}
       THEN Verdict(FALSE, 403, Err("Required roles", options.roles))
       ELSE IF /\ options.permissions # {}
               /\ options.requireAllPermissions
               /\ ~HasAllPermissions(options.permissions, payload.permissions)
       THEN Verdict(FALSE, 403, Err("Required all permissions", options.permissions))
       ELSE IF /\ options.permissions # {}
               /\ ~options.requireAllPermissions
               /\ ~HasAnyPermission(options.permissions, payload.permissions)
       THEN Verdict(FALSE, 403, Err("Required any of these permissions", options.permissions))
       ELSE Verdict(TRUE, 200, NoErr)

\* what a caller can turn a token into without the signing key
Tamper(t) ==
    { [t EXCEPT !.sig = Hmac(ForeignKey, t.alg, t.payload)],
      [t EXCEPT !.alg = "none", !.sig = NoSig],
      [t EXCEPT !.payload = [t.payload EXCEPT !.roles = {"*"}]] }

\* the same payload signed by the process key under another algorithm
Resign(t, alg) == [t EXCEPT !.alg = alg, !.sig = Hmac(ProcessKey, alg, t.payload)]

\* the tokens a request can carry: those issued, and what can be made of them
Tokens ==
    LET tokens == { i.token : i \in issued }
    IN {NoToken} \cup tokens \cup UNION { Tamper(t) \cup {Resign(t, "HS384")} : t \in tokens }

\* the Authorization headers the requests of the model carry
Headers ==
    {NoAuthHeader, [scheme |-> "Basic", token |-> NoToken], Bearer(NoToken)}
    \cup { Bearer(i.token) : i \in issued }
    \cup { Bearer([i.token EXCEPT !.sig = Hmac(ForeignKey, "HS256", i.token.payload)]) :
             i \in issued }

\* a caller with no credentials, and the holders of the tokens issued
Callers == {NoAuthHeader} \cup { Bearer(i.token) : i \in issued }

\* the requirements a route can declare
OptionSets ==
    [roles : {{}, {"*"}, {"admin"}, {"admin", "reader"}},
     permissions : {{}, {"read"}, {"read", "write"}},
     requireAllPermissions : BOOLEAN]

\* the requirements of the routes of the model
RouteOptions ==
    {NoOptions, AdminOnly,
     [roles |-> {"admin"}, permissions |-> {}, requireAllPermissions |-> FALSE],
     [roles |-> {}, permissions |-> {"read", "write"}, requireAllPermissions |-> FALSE],
     [roles |-> {}, permissions |-> {"read", "write"}, requireAllPermissions |-> TRUE]}

\* a route mounted behind Authorize(options), with a handler that answers 200
Guarded(options, h) ==
    /\ Alive
    /\ LET v == Authorize(options, h)
       IN resp' = Resp("guarded", v.status, v.error)
    /\ UNCHANGED <<clientRows, jwtSignKey, jwtLifetime, now, loginCall, issued>>
    /\ UNCHANGED <<kmsVars, dekDbVars, secretVars, folderVars, ev>>

\* createClient(name, secret, roles, permissions)
CreateClient(name, secret, roles, permissions) ==
    IF FindByName(name) # 0
    THEN /\ resp' = Resp("register", 409, Err("Client name already exists", {}))
         /\ UNCHANGED clientRows
    ELSE /\ clientRows' = Append(clientRows,
                                 [name |-> name, hashedSecret |-> Argon2Hash(secret),
                                  isActive |-> TRUE, roles |-> roles,
                                  permissions |-> permissions, lastUsedAt |-> NoTime])
         /\ resp' = Resp("register", 201, NoErr)

\* POST /client/register, behind Authorize({ roles: ['*'] })
Register(h, name, secret, roles, permissions) ==
    /\ Alive
    /\ Len(clientRows) < MaxRow
    /\ LET v == Authorize(AdminOnly, h)
       IN IF v.next
          THEN CreateClient(name, secret, roles, permissions)
          ELSE /\ resp' = Resp("register", v.status, v.error)
               /\ UNCHANGED clientRows
    /\ UNCHANGED <<jwtSignKey, jwtLifetime, now, loginCall, issued>>
    /\ UNCHANGED <<kmsVars, dekDbVars, secretVars, folderVars, ev>>

\* revokeClient(clientId): true when a row was updated
RevokeClient(clientId) ==
    IF clientId \in DOMAIN clientRows
    THEN /\ clientRows' = [clientRows EXCEPT ![clientId].isActive = FALSE]
         /\ resp' = Resp("revoke", 204, NoErr)
    ELSE /\ resp' = Resp("revoke", 404, Err("Client not found", {}))
         /\ UNCHANGED clientRows

\* DELETE /client/:clientId/revoke, behind Authorize()
Revoke(h, clientId) ==
    /\ Alive
    /\ LET v == Authorize(NoOptions, h)
       IN IF v.next
          THEN RevokeClient(clientId)
          ELSE /\ resp' = Resp("revoke", v.status, v.error)
               /\ UNCHANGED clientRows
    /\ UNCHANGED <<jwtSignKey, jwtLifetime, now, loginCall, issued>>
    /\ UNCHANGED <<kmsVars, dekDbVars, secretVars, folderVars, ev>>

\* Config.initialize(): import the signing key
ConfigInitialize ==
    /\ Alive
    /\ jwtSignKey = NoSignKey
    /\ jwtSignKey' = ProcessKey
    /\ UNCHANGED <<clientRows, jwtLifetime, now, loginCall, issued, resp>>
    /\ UNCHANGED <<kmsVars, dekDbVars, secretVars, folderVars, ev>>

\* the clock
Tick ==
    /\ Alive
    /\ now < MaxNow
    /\ now' = now + 1
    /\ UNCHANGED <<clientRows, jwtSignKey, jwtLifetime, loginCall, issued, resp>>
    /\ UNCHANGED <<kmsVars, dekDbVars, secretVars, folderVars, ev>>

\* ------------------------------------------------------------ dek routes
\* the guard's refusal: the error handler answers and nothing else happens
Refused(op, v) ==
    /\ Alive
    /\ resp' = Resp(op, v.status, v.error)
    /\ UNCHANGED <<clientRows, jwtSignKey, jwtLifetime, now, loginCall, issued>>
    /\ UNCHANGED <<kmsVars, dekDbVars, secretVars, folderVars, ev>>

\* POST /dek, behind router.use(Authorize({ roles: ['*'] }))
PostDek(h, a) ==
    LET v == Authorize(AdminOnly, h)
    IN IF v.next THEN GenerateDekWrap(a, "intact") ELSE Refused("dek", v)

\* GET /dek/:includeKeys, GET /dek/:id and GET /dek/by-kek/..., behind the same guard
GetDeks(h, a) ==
    LET v == Authorize(AdminOnly, h)
    IN IF v.next
       THEN /\ Alive
            /\ ev' = Event("getAllDeks", TRUE, 0, 0)
            /\ UNCHANGED <<kmsVars, dekDbVars, secretVars, authVars, folderVars>>
       ELSE Refused("dek", v)

\* DELETE /dek/:id, behind the same guard
DeleteDekRoute(h, a, id) ==
    LET v == Authorize(AdminOnly, h)
    IN IF v.next THEN DeleteDek(a, id) ELSE Refused("dek", v)

\* POST /dek/rotate-kek {newKekId, oldKekId}, behind the same guard:
\* `KeyManagementService.rotateToNewKek(req.body.newKekId, req.body.oldKekId)`,
\* a call with two arguments of a function that declares one parameter
RotateKek(h, a, newKekId, oldKekId) ==
    LET v == Authorize(AdminOnly, h)
    IN IF v.next THEN KekFetch(a, newKekId) ELSE Refused("dek", v)

\* ------------------------------------------------------------ FolderService
\* an argument left out of `updates` (undefined); 0 models null
Undefined == 0 - 1

IdleFolderCall ==
    [pc |-> "idle", folderId |-> 0, name |-> Undefined, parentId |-> Undefined,
     folder |-> [name |-> 0, parentId |-> 0], currentParentId |-> 0]

\* Folder.findOne({ where: { name, parentId, id: { [Op.not]: folderId } } })
FindFolder(name, parentId, folderId) ==
    { f \in DOMAIN folders \ {folderId} :
        folders[f].name = name /\ folders[f].parentId = parentId }

\* create(name, parentId): the parent must exist, no folder of that name in
\* that parent, then Folder.create, which the unique index on folder.name can
\* reject; val carries the status answered
FolderCreate(name, parentId) ==
    /\ Alive
    /\ folderSeq < MaxFolder
    /\ LET id == folderSeq + 1
       IN IF parentId # 0 /\ parentId \notin DOMAIN folders
          THEN /\ ev' = Event("createFolder", FALSE, 0, 404)
               /\ UNCHANGED <<folders, folderSeq>>
          ELSE IF FindFolder(name, parentId, 0) # {}
          THEN /\ ev' = Event("createFolder", FALSE, 0, 409)
               /\ UNCHANGED <<folders, folderSeq>>
          ELSE IF \E f \in DOMAIN folders : folders[f].name = name
          THEN /\ ev' = Event("createFolder", FALSE, 0, 500)
               /\ UNCHANGED <<folders, folderSeq>>
          ELSE /\ folders' = [f \in DOMAIN folders \cup {id} |->
                                IF f = id THEN [name |-> name, parentId |-> parentId]
                                ELSE folders[f]]
               /\ folderSeq' = id
               /\ ev' = Event("createFolder", TRUE, id, 201)
    /\ UNCHANGED folderCall
    /\ UNCHANGED <<kmsVars, dekDbVars, secretVars, authVars>>

\* update(): where the call goes once the circular-reference check is over:
\* `if (name || (parentId !== undefined && parentId !== folder.parentId))` awaits
\* the duplicate lookup, otherwise the save comes next
AfterCircularCheck(fc) ==
    IF fc.name # Undefined
       \/ (fc.parentId # Undefined /\ fc.parentId # fc.folder.parentId)
    THEN [fc EXCEPT !.pc = "lookup", !.currentParentId = 0]
    ELSE [fc EXCEPT !.pc = "save", !.currentParentId = 0]

\* update(folderId, {name, parentId}), up to the first `await Folder.findByPk(..)`
\* of the circular-reference loop: `await this.get(folderId)` and the tests on
\* parentId
FolderUpdateGet(c, folderId, name, parentId) ==
    /\ Alive
    /\ folderCall[c].pc = "idle"
    /\ IF folderId \notin DOMAIN folders
       THEN /\ ev' = Event("updateFolder", FALSE, folderId, 404)
            /\ UNCHANGED folderCall
       ELSE LET folder == folders[folderId]
                fc == [IdleFolderCall EXCEPT !.folderId = folderId, !.name = name,
                                               !.parentId = parentId, !.folder = folder]
            IN IF parentId > 0 /\ parentId # folder.parentId
               THEN IF parentId = folderId
                    THEN /\ ev' = Event("updateFolder", FALSE, folderId, 400)
                         /\ UNCHANGED folderCall
                    ELSE /\ folderCall' = [folderCall EXCEPT ![c] =
                                             [fc EXCEPT !.pc = "walk",
                                                          !.currentParentId = parentId]]
                         /\ UNCHANGED ev
               ELSE /\ folderCall' = [folderCall EXCEPT ![c] = AfterCircularCheck(fc)]
                    /\ UNCHANGED ev
    /\ UNCHANGED <<folders, folderSeq>>
    /\ UNCHANGED <<kmsVars, dekDbVars, secretVars, authVars>>

\* update(), one turn of `while (currentParentId)`: the awaited findByPk, the
\* comparison with folderId, the step to the parent's parent
FolderUpdateWalk(c) ==
    /\ Alive
    /\ folderCall[c].pc = "walk"
    /\ LET fc == folderCall[c]
           found == fc.currentParentId \in DOMAIN folders
       IN IF ~found
          THEN /\ folderCall' = [folderCall EXCEPT ![c] = AfterCircularCheck(fc)]
               /\ UNCHANGED ev
          ELSE IF fc.currentParentId = fc.folderId
          THEN /\ ev' = Event("updateFolder", FALSE, fc.folderId, 400)
               /\ folderCall' = [folderCall EXCEPT ![c] = IdleFolderCall]
          ELSE /\ folderCall' = [folderCall EXCEPT ![c] =
                                   IF folders[fc.currentParentId].parentId = 0
                                   THEN AfterCircularCheck(fc)
                                   ELSE [fc EXCEPT !.currentParentId =
                                                       folders[fc.currentParentId].parentId]]
               /\ UNCHANGED ev
    /\ UNCHANGED <<folders, folderSeq>>
    /\ UNCHANGED <<kmsVars, dekDbVars, secretVars, authVars>>

\* update(), the duplicate lookup: `await Folder.findOne({where: {name: newName,
\* parentId: newParentId, id: {[Op.not]: folderId}}})`
FolderUpdateLookup(c) ==
    /\ Alive
    /\ folderCall[c].pc = "lookup"
    /\ LET fc == folderCall[c]
           newName == IF fc.name # Undefined THEN fc.name ELSE fc.folder.name
           newParentId == IF fc.parentId # Undefined THEN fc.parentId
                          ELSE fc.folder.parentId
       IN IF FindFolder(newName, newParentId, fc.folderId) # {}
          THEN /\ ev' = Event("updateFolder", FALSE, fc.folderId, 409)
               /\ folderCall' = [folderCall EXCEPT ![c] = IdleFolderCall]
          ELSE /\ folderCall' = [folderCall EXCEPT ![c].pc = "save"]
               /\ UNCHANGED ev
    /\ UNCHANGED <<folders, folderSeq>>
    /\ UNCHANGED <<kmsVars, dekDbVars, secretVars, authVars>>

\* update(), `await folder.save()` on the instance read by get(): an UPDATE of
\* the fields that were assigned a new value, where id = folderId; the unique
\* index on folder.name can reject it, and it touches no row when the folder
\* is gone
FolderUpdateSave(c) ==
    /\ Alive
    /\ folderCall[c].pc = "save"
    /\ LET fc == folderCall[c]
           id == fc.folderId
           newName == IF fc.name # Undefined THEN fc.name ELSE fc.folder.name
           newParentId == IF fc.parentId # Undefined THEN fc.parentId
                          ELSE fc.folder.parentId
           nameTaken == /\ newName # fc.folder.name
                        /\ id \in DOMAIN folders
                        /\ \E f \in DOMAIN folders \ {id} : folders[f].name = newName
       IN IF nameTaken
          THEN /\ ev' = Event("updateFolder", FALSE, id, 500)
               /\ UNCHANGED folders
          ELSE /\ folders' = IF id \in DOMAIN folders
                             THEN [folders EXCEPT ![id] =
                                     [name |-> IF newName # fc.folder.name
                                               THEN newName ELSE @.name,
                                      parentId |-> IF newParentId # fc.folder.parentId
                                                   THEN newParentId ELSE @.parentId]]
                             ELSE folders
               /\ ev' = Event("updateFolder", TRUE, id, 200)
    /\ folderCall' = [folderCall EXCEPT ![c] = IdleFolderCall]
    /\ UNCHANGED folderSeq
    /\ UNCHANGED <<kmsVars, dekDbVars, secretVars, authVars>>

\* delete(folderId): Folder.destroy({ where: { id: folderId } }); no foreign
\* key ties folder.parentId to folder.id, so children keep their parentId
FolderDelete(folderId) ==
    /\ Alive
    /\ folders' = [f \in DOMAIN folders \ {folderId} |-> folders[f]]
    /\ ev' = Event("deleteFolder", TRUE, folderId, 204)
    /\ UNCHANGED <<folderSeq, folderCall>>
    /\ UNCHANGED <<kmsVars, dekDbVars, secretVars, authVars>>

\* getPath(folderId): `while (currentId)` reads the folder, puts it in front of
\* the path and goes on with its parentId; the loop ends on null or on a missing
\* folder. A walk that has read more folders than the table holds reads one of
\* them again, and then never ends
RECURSIVE PathFrom(_, _)
PathFrom(currentId, path) ==
    IF currentId = 0 \/ currentId \notin DOMAIN folders
    THEN [ends |-> TRUE, path |-> path]
    ELSE IF Len(path) > Cardinality(DOMAIN folders)
    THEN [ends |-> FALSE, path |-> path]
    ELSE PathFrom(folders[currentId].parentId, <<currentId>> \o path)

GetPath(folderId) == PathFrom(folderId, <<>>)

\* ------------------------------------------------------------ the system
EmptyMap == [x \in {} |-> 0]

\* process start: nothing cached, no default; the store holds the DEK rows of
\* earlier runs, each wrapped under the configured KEK
InitConfig(n, lifetime, devMode) ==
    /\ keys = EmptyMap
    /\ defaultDekId = 0
    /\ defaultKekId = EnvKekId
    /\ boot = [pc |-> "off", deks |-> <<>>]
    /\ dev = devMode
    /\ dekRows = [d \in 1..n |->
                    [key |-> KmsEncrypt(d, IF devMode THEN LocalKek ELSE EnvKekId),
                     kekId |-> EnvKekId, version |-> DefaultRowVersion]]
    /\ dekSeq = n
    /\ keySeq = n
    /\ dekCall = [a \in Admins |-> IdleDekCall]
    /\ kekCall = [a \in Admins |-> IdleKekCall]
    /\ secrets = EmptyMap
    /\ sidSeq = 0
    /\ call = [c \in Clients |-> IdleCall]
    /\ rotations = <<>>
    /\ rotSeq = 0
    /\ stamp = 0
    /\ acked = EmptyMap
    /\ ev = Event("start", TRUE, 0, 0)
    /\ clientRows = <<SeedRow>>
    /\ jwtSignKey = NoSignKey
    /\ jwtLifetime = lifetime
    /\ now = 0
    /\ loginCall = IdleLogin
    /\ issued = {}
    /\ resp = Resp("none", 0, NoErr)
    /\ folders = EmptyMap
    /\ folderSeq = 0
    /\ folderCall = [c \in FolderCallers |-> IdleFolderCall]

\* a deployment against the remote KMS (DEV unset)
InitStore(n, lifetime) == InitConfig(n, lifetime, FALSE)

\* a deployment that leaves JWT_LIFETIME out of its environment
Init == \E n \in 0..InitDek : InitStore(n, NoLifetime)

Next ==
    \/ ConfigInitialize
    \/ StartupFetch
    \/ StartupLoad
    \/ \E d \in 1..MaxDek : LoadNewKey(d)
    \/ \E a \in Admins : GenerateDekWrap(a, "intact")
    \/ \E a \in Admins, dbOk \in BOOLEAN : GenerateDekCreate(a, dbOk)
    \/ \E c \in Clients, name \in Names, p \in Plains : CreateEncrypt(c, name, p)
    \/ \E c \in Clients, dbOk \in BOOLEAN : CreateWrite(c, dbOk)
    \/ \E c \in Clients, id \in SecretIds : GetFind(c, TRUE, id)
    \/ \E c \in Clients, name \in Names : GetFind(c, FALSE, name)
    \/ \E c \in Clients : GetReturn(c)
    \/ \E c \in Clients, id \in SecretIds, name \in Names, p \in Plains :
         UpdateEncrypt(c, id, name, p)
    \/ \E c \in Clients, dbOk \in BOOLEAN : UpdateWrite(c, dbOk)
    \/ \E c \in Clients, id \in SecretIds : Delete(c, id)
    \/ \E i \in 1..MaxSpawn : RotationEncrypt(i)
    \/ \E i \in 1..MaxSpawn, dbOk \in BOOLEAN : RotationWrite(i, dbOk)

Spec == Init /\ [][Next]_vars

\* key administration alone: startup, DEK creation and KEK rotation
NextKek ==
    \/ ConfigInitialize
    \/ StartupFetch
    \/ StartupLoad
    \/ \E d \in 1..MaxDek : LoadNewKey(d)
    \/ \E a \in Admins : GenerateDekWrap(a, "intact")
    \/ \E a \in Admins, dbOk \in BOOLEAN : GenerateDekCreate(a, dbOk)
    \/ \E a \in Admins, k \in Keks : KekFetch(a, k)
    \/ \E a \in Admins, answer \in {"intact", "rejected"} : KekEncrypt(a, answer)
    \/ \E a \in Admins, dbOk \in BOOLEAN : KekWrite(a, dbOk)
    \/ \E a \in Admins : KekCache(a)
    \/ \E a \in Admins : KekFinish(a)

SpecKek == Init /\ [][NextKek]_vars

\* the same administration in development mode (DEV=true): the rows of earlier
\* runs are sealed under the local KEK
InitDev == \E n \in 0..InitDek : InitConfig(n, NoLifetime, TRUE)

SpecDev == InitDev /\ [][NextKek]_vars

\* the folder tree, with overlapping updates
InitFolder == InitStore(0, NoLifetime)

NextFolder ==
    \/ \E name \in FolderNames, parentId \in 0..folderSeq : FolderCreate(name, parentId)
    \/ \E c \in FolderCallers, folderId \in 1..folderSeq,
          name \in FolderNames \cup {Undefined}, parentId \in (0..folderSeq) \cup {Undefined} :
         FolderUpdateGet(c, folderId, name, parentId)
    \/ \E c \in FolderCallers : FolderUpdateWalk(c)
    \/ \E c \in FolderCallers : FolderUpdateLookup(c)
    \/ \E c \in FolderCallers : FolderUpdateSave(c)
    \/ \E folderId \in 1..folderSeq : FolderDelete(folderId)

SpecFolder == InitFolder /\ [][NextFolder]_vars

\* one step of a KEK rotation
KekStep ==
    \/ \E a \in Admins, k \in Keks : KekFetch(a, k)
    \/ \E a \in Admins, answer \in {"intact", "rejected"} : KekEncrypt(a, answer)
    \/ \E a \in Admins, dbOk \in BOOLEAN : KekWrite(a, dbOk)
    \/ \E a \in Admins : KekCache(a)
    \/ \E a \in Admins : KekFinish(a)

\* secrets served while the keys are administered
NextVault ==
    \/ ConfigInitialize
    \/ StartupFetch
    \/ StartupLoad
    \/ \E c \in Clients, name \in Names, p \in Plains : CreateEncrypt(c, name, p)
    \/ \E c \in Clients, dbOk \in BOOLEAN : CreateWrite(c, dbOk)
    \/ \E c \in Clients, id \in SecretIds : GetFind(c, TRUE, id)
    \/ \E c \in Clients : GetReturn(c)
    \/ \E a \in Admins : GenerateDekWrap(a, "intact")
    \/ \E a \in Admins, dbOk \in BOOLEAN : GenerateDekCreate(a, dbOk)
    \/ \E a \in Admins, d \in 1..MaxDek : DeleteDek(a, d)
    \/ KekStep

SpecVault == Init /\ [][NextVault]_vars

\* one turn of the event loop on a background rotation: its timer fires or the
\* promise it awaits settles
RotationStep ==
    \E i \in 1..MaxSpawn :
        RotationEncrypt(i) \/ \E dbOk \in BOOLEAN : RotationWrite(i, dbOk)

\* the event loop keeps running while a timer or a continuation is ready
RotationFairness == WF_vars(RotationStep)

FairSpec == Spec /\ RotationFairness

\* client administration and the guard alone, under every JWT_LIFETIME
InitAuth == \E lifetime \in Lifetimes : InitStore(InitDek, lifetime)

NextAuth ==
    \/ ConfigInitialize
    \/ Tick
    \/ \E name \in ClientNames, secret \in Passwords : AuthenticateFind(name, secret)
    \/ AuthenticateIssue
    \/ \E options \in RouteOptions, h \in Headers : Guarded(options, h)
    \/ \E h \in Headers, name \in ClientNames, roles \in RoleSets, permissions \in PermSets :
         Register(h, name, "pw", roles, permissions)
    \/ \E h \in Headers, clientId \in 1..MaxRow : Revoke(h, clientId)

SpecAuth == InitAuth /\ [][NextAuth]_vars

\* key and client administration through the routes, with a store and a KMS
\* that answer the rotation
InitAdmin == InitStore(1, NoLifetime)

NextAdmin ==
    \/ ConfigInitialize
    \/ StartupFetch
    \/ StartupLoad
    \/ \E name \in ClientNames : AuthenticateFind(name, IF name = "admin" THEN SeedSecret ELSE "pw")
    \/ AuthenticateIssue
    \/ \E h \in Callers : Register(h, "svc", "pw", {"reader"}, {})
    \/ \E h \in Callers, a \in Admins : PostDek(h, a)
    \/ \E a \in Admins, dbOk \in BOOLEAN : GenerateDekCreate(a, dbOk)
    \/ \E h \in Callers, a \in Admins : GetDeks(h, a)
    \/ \E h \in Callers, a \in Admins, id \in 1..MaxDek : DeleteDekRoute(h, a, id)
    \/ \E h \in Callers, a \in Admins, oldKekId \in Keks : RotateKek(h, a, "kek2", oldKekId)
    \/ \E a \in Admins : KekEncrypt(a, "intact")
    \/ \E a \in Admins : KekWrite(a, TRUE)
    \/ \E a \in Admins : KekCache(a)
    \/ \E a \in Admins : KekFinish(a)

SpecAdmin == InitAdmin /\ [][NextAdmin]_vars

\* key administration over a network that can corrupt what the KMS exchanges
NextKms ==
    \/ ConfigInitialize
    \/ StartupFetch
    \/ StartupLoad
    \/ \E a \in Admins, answer \in KmsAnswers : GenerateDekWrap(a, answer)
    \/ \E a \in Admins, dbOk \in BOOLEAN : GenerateDekCreate(a, dbOk)
    \/ \E a \in Admins, k \in Keks : KekFetch(a, k)
    \/ \E a \in Admins, answer \in KmsAnswers : KekEncrypt(a, answer)
    \/ \E a \in Admins, dbOk \in BOOLEAN : KekWrite(a, dbOk)
    \/ \E a \in Admins : KekCache(a)
    \/ \E a \in Admins : KekFinish(a)

SpecKms == Init /\ [][NextKms]_vars

\* ---------------------------------------------------------------- claims
Persisted == DOMAIN secrets
Started == boot.pc = "done"

\* C1 (as claimed): every persisted Secret row's package header names the DEK
\* recorded in the row's dekId column.
C1_HeaderMatchesColumn ==
    \A s \in Persisted : secrets[s].data.header.dekId = secrets[s].dekId

\* C2 (as claimed): once startup has completed, the default DEK id is a key of
\* the in-memory DEK cache.
C2_DefaultResolvable == Started => GetKey(defaultDekId).ok

\* C3 (as claimed): when generateDek has just persisted a row with id N, the
\* cache holds the new plaintext key under N and the default DEK id is N.
C3_CreatedDekIsDefault ==
    (ev.op = "generateDek" /\ ev.ok) =>
        /\ GetKey(ev.id).ok
        /\ GetKey(ev.id).key = ImportKey(ev.val)
        /\ defaultDekId = ev.id

\* C4 (as claimed): at the end of initialize() the default DEK id is the highest
\* id among the DEK rows loaded, and 1 when there are none.
C4_DefaultIsHighestAtStartup ==
    ev.op = "initialize" =>
        LET ids == { boot.deks[i].id : i \in 1..Len(boot.deks) }
        IN defaultDekId = IF ids = {} THEN 1 ELSE Max(ids)

\* what a get of secret s would return now
DecryptRow(s) == DecryptSecret(secrets[s].data, secrets[s].dekId)

\* a background rotation with ticket n is pending or in progress
RotationPending(n) == \E i \in 1..Len(rotations) : rotations[i].n = n

\* C5: every scheduled rotation settles; and one that succeeds while the default
\* DEK id is the one its triggering read saw (no DEK was made the default in
\* between) leaves the row with dekId = default, decrypting to the plaintext
\* that the triggering read returned.
C5_RotationBringsRowToDefault ==
    /\ \A n \in 1..MaxSpawn : RotationPending(n) ~> (ev.op = "rotation" /\ ev.val = n)
    /\ [][\A i \in 1..Len(rotations), s \in SecretIds, d \in 1..MaxDek :
            (/\ rotations[i].sid = s
             /\ rotations[i].seen = d
             /\ rotations[i].pkg.header.dekId = d
             /\ defaultDekId' = d
             /\ ev' = Event("rotation", TRUE, s, rotations[i].n))
            => (/\ s \in DOMAIN secrets'
                /\ secrets'[s].dekId = d
                /\ DecryptRow(s)' = [ok |-> TRUE, secret |-> rotations[i].plain,
                                     header |-> Header(d)])]_vars

C5_Witness ==
    /\ ev.op = "rotation" /\ ev.ok
    /\ ev.id \in Persisted
    /\ secrets[ev.id].lastRotation > 0
    /\ secrets[ev.id].dekId = defaultDekId
    /\ DecryptRow(ev.id).ok

\* C6 (as claimed): at most one background rotation is pending or in progress
\* for a given secret id.
C6_OneRotationPerSecret ==
    \A i, j \in 1..Len(rotations) : rotations[i].sid = rotations[j].sid => i = j

\* C7: a stale read returns its plaintext at once, with the rotation it scheduled
\* still waiting on its timer and the row untouched; and no step of a rotation
\* touches a read in flight or produces a read's outcome.
C7_ReadDoesNotWaitForRotation ==
    [][/\ \A c \in Clients :
            (/\ call[c].pc = "getDecrypted"
             /\ call'[c].pc # "getDecrypted"
             /\ call[c].pkg.header.dekId # defaultDekId)
            => (/\ ev' = Event("get", TRUE, call[c].sid, call[c].plain)
                /\ secrets' = secrets
                /\ Len(rotations') = Len(rotations) + 1
                /\ rotations'[Len(rotations')].pc = "sleep"
                /\ rotations'[Len(rotations')].sid = call[c].sid)
       /\ (\E i \in 1..Len(rotations) : i > Len(rotations') \/ rotations'[i] # rotations[i])
            => (call' = call /\ (ev'.op = "get" => ev' = ev))]_vars

C7_Witness ==
    /\ ev.op = "get" /\ ev.ok
    /\ \E i \in 1..Len(rotations) :
         rotations[i].n = rotSeq /\ rotations[i].sid = ev.id /\ rotations[i].pc = "sleep"

\* C8: a rotation that fails is over (it is not re-queued), leaves the secret
\* table as it was and disturbs no call; a rotation is only ever started by a
\* successful read of that secret.
C8_FailedRotationIsDropped ==
    [][/\ (ev' # ev /\ ev'.op = "rotation" /\ ~ev'.ok)
            => (/\ \E n \in 1..MaxSpawn :
                     n = ev'.val /\ RotationPending(n) /\ ~RotationPending(n)'
                /\ Len(rotations') = Len(rotations) - 1
                /\ secrets' = secrets
                /\ call' = call
                /\ rotSeq' = rotSeq)
       /\ (rotSeq' # rotSeq)
            => (/\ ev'.op = "get" /\ ev'.ok
                /\ rotations' = Append(rotations, rotations'[Len(rotations')])
                /\ rotations'[Len(rotations')].sid = ev'.id)]_vars

C8_Witness ==
    /\ ev.op = "rotation" /\ ~ev.ok
    /\ ev.id \in Persisted
    /\ ~RotationPending(ev.val)
    /\ secrets[ev.id].lastRotation = 0

\* C9 (as claimed): a get of a secret whose creation was acknowledged, and that
\* was not updated or deleted since, succeeds and returns the created plaintext.
C9_GetReturnsCreated ==
    (ev.op = "get" /\ ev.id \in DOMAIN acked /\ acked[ev.id].by = "create") =>
        (ev.ok /\ ev.val = acked[ev.id].plain)

\* C10 (as claimed): once the service has started, whenever a KEK rotation to
\* `new` counts a DEK as a success, the row is (wrapped', new, v+1) with wrapped'
\* opening under `new` to the key the old wrapping held, and the cache entry
\* for the id holds that key.
C10_RewrapKeepsKeyAndCache ==
    [][\A a \in Admins :
         (Started /\ kekCall'[a].success = kekCall[a].success + 1)
         => LET dek == CurrentDek(a)
                new == kekCall[a].newKekId
            IN /\ dek.id \in DOMAIN dekRows'
               /\ dekRows'[dek.id].kekId = new
               /\ dekRows'[dek.id].version = dek.version + 1
               /\ KmsDecrypt(dekRows'[dek.id].key, new) = [ok |-> TRUE, raw |-> dek.key]
               /\ dek.id \in DOMAIN keys'
               /\ keys'[dek.id] = ImportKey(dek.key)]_vars

\* C11 (as claimed): a rotation to newKekId leaves unchanged every row that an
\* earlier rotation already re-wrapped under newKekId (same wrapped key, same
\* kekId, same version).
C11_RewrapIsIdempotent ==
    [][\A a \in Admins :
         (/\ kekCall[a].pc = "encrypted"
          /\ CurrentDek(a).id \in DOMAIN dekRows
          /\ CurrentDek(a).version > DefaultRowVersion
          /\ CurrentDek(a).kekId = kekCall[a].newKekId
          /\ dekRows[CurrentDek(a).id].kekId = kekCall[a].newKekId
          /\ dekRows[CurrentDek(a).id].key.kek = kekCall[a].newKekId)
         => dekRows'[CurrentDek(a).id] = dekRows[CurrentDek(a).id]]_vars

\* C12 (as claimed): a KEK rotation always returns a result, and the result
\* accounts for every selected DEK, each either re-wrapped or listed as a
\* failure; no failure on one DEK (unwrap, re-wrap or persist) rejects the batch.
C12_BatchSurvivesFailures ==
    [][/\ (ev' # ev /\ ev'.op = "rotateToNewKek") => ev'.ok
       /\ \A a \in Admins :
            (kekCall[a].pc = "loop" /\ kekCall'[a].pc = "idle")
            => (/\ ev'.op = "rotateToNewKek"
                /\ ev'.id + ev'.val = Len(kekCall[a].deks)
                /\ ev'.val = Len(kekCall[a].failures))]_vars

C14_NewDeksUseNewKek ==
    [][/\ \A a \in Admins :
            (kekCall[a].pc = "loop" /\ kekCall'[a].pc = "idle")
            => defaultKekId' = kekCall[a].newKekId
       /\ defaultKekId' # defaultKekId
            => \E a \in Admins : kekCall[a].pc = "loop" /\ kekCall'[a].pc = "idle"
       /\ \A a \in Admins :
            (dekCall[a].pc = "idle" /\ dekCall'[a].pc = "wrapped")
            => dekCall'[a].key = KmsEncrypt(dekCall'[a].raw, defaultKekId)
       /\ \A a \in Admins :
            (/\ dekCall[a].pc = "wrapped" /\ dekCall'[a].pc = "idle"
             /\ ev'.ok
             /\ dekCall[a].key.kek = defaultKekId)
            => (/\ ev'.id \in DOMAIN dekRows' \ DOMAIN dekRows
                /\ dekRows'[ev'.id].kekId = defaultKekId
                /\ dekRows'[ev'.id].key = KmsEncrypt(dekCall[a].raw, defaultKekId))]_vars

C14_Witness ==
    /\ ev.op = "generateDek" /\ ev.ok
    /\ ev.id \in DOMAIN dekRows
    /\ defaultKekId # EnvKekId
    /\ dekRows[ev.id].kekId = defaultKekId
    /\ dekRows[ev.id].key = KmsEncrypt(ev.val, defaultKekId)
    /\ dekRows[ev.id].version = DefaultRowVersion

\* C15 (as claimed): a DEK row is only ever deleted while no Secret row
\* references it, deleting a DEK deletes no Secret row, and every Secret's
\* dekId references an existing DEK row.
C15_DeleteDekRefusesReferenced ==
    /\ [](\A s \in Persisted : secrets[s].dekId \in DOMAIN dekRows)
    /\ [][\A d \in DOMAIN dekRows :
            d \notin DOMAIN dekRows'
            => (/\ \A s \in Persisted : secrets[s].dekId # d
                /\ secrets' = secrets)]_vars

\* C16 (as claimed): whenever encryptSecret produces a package (in create, update
\* or a background rotation), a DEK row with the id it used exists at that moment.
C16_EncryptUsesPersistedDek ==
    [][/\ \A c \in Clients :
            (/\ call[c].pc = "idle"
             /\ call'[c].pc \in {"createEncrypted", "updateEncrypted"})
            => call'[c].pkg.header.dekId \in DOMAIN dekRows
       /\ \A i \in 1..Len(rotations) :
            (/\ rotations[i].pc = "sleep"
             /\ Len(rotations') = Len(rotations)
             /\ rotations'[i].pc = "encrypted")
            => rotations'[i].pkg.header.dekId \in DOMAIN dekRows]_vars

\* a request to the API is being handled in this step
RequestStep ==
    \/ call' # call
    \/ dekCall' # dekCall
    \/ kekCall' # kekCall
    \/ /\ ev' # ev
       /\ ev'.op \in {"create", "get", "update", "delete", "generateDek", "deleteDek",
                      "rotateToNewKek"}

\* C17 (as claimed): a request is handled only once initialize() has populated
\* the DEK cache and set the default DEK id; in particular never when startup
\* has failed.
C17_ServeOnlyAfterStartup == [][RequestStep => Started]_vars

\* C18 (as claimed): when startup completes, at least one DEK row exists and its
\* key is in the cache, also when the dek table was empty at the start.
C18_StartupSeedsDek ==
    ev.op = "initialize" => \E d \in DOMAIN dekRows : GetKey(d).ok

C20_DekIdCheckSkipsNull ==
    \A P \in Plains, d \in DOMAIN keys, e \in 0..MaxDek :
        DecryptSecret(EncryptSecret(P, d).pkg, e).ok <=> (e = 0 \/ e = d)

\* C21 (as claimed): once the default DEK id is set, decryptSecret rejects a
\* package on the version check exactly when its header version is above 1,
\* whatever the default DEK id is.
C21_VersionCheckIsAboveOne ==
    Started =>
        \A v \in 1..MaxHeaderVersion, d \in 1..MaxDek, P \in Plains :
            (DecryptSecretRejection(PackageOfVersion(v, d, P), d) = "version") <=> (v > 1)

\* C22: once a client is revoked it stays inactive, no login for it gets past
\* the lookup (401), and every token issued to it is answered 401 by the guard
\* of every route.
C22_RevokedStaysOut ==
    [][\A c \in 1..MaxRow :
         (c \in DOMAIN clientRows /\ ~clientRows[c].isActive) =>
            /\ ~clientRows'[c].isActive
            /\ (loginCall.pc = "idle" /\ loginCall'.pc = "found") => loginCall'.id # c
            /\ \A secret \in Passwords :
                 AuthenticateFind(clientRows[c].name, secret) => resp'.status = 401
            /\ \A i \in issued, options \in OptionSets :
                 i.token.payload.clientId = c =>
                    LET v == Authorize(options, Bearer(i.token))
                    IN ~v.next /\ v.status = 401]_vars

\* a revoked client presents a token issued to it and is answered 401
C22_Witness ==
    /\ resp = Resp("guarded", 401, Err("Client account is inactive", {}))
    /\ \E i \in issued :
         /\ ~clientRows[i.token.payload.clientId].isActive
         /\ JwtVerify(i.token, jwtSignKey, now).isValid

\* the requirement on roles and the requirement on permissions, as the
\* operation declares them
RoleRequirement(options, roles) ==
    options.roles = {} \/ options.roles \cap roles # {}

PermissionRequirement(options, permissions) ==
    \/ options.permissions = {}
    \/ IF options.requireAllPermissions
       THEN options.permissions \subseteq permissions
       ELSE options.permissions \cap permissions # {}

\* every Authorization header a request can carry
AnyHeader ==
    {NoAuthHeader} \cup { [scheme |-> sc, token |-> t] : sc \in {"Basic", "Bearer"}, t \in Tokens }

\* C23: the guard lets a request through only when the header is a Bearer
\* header, the token verifies, the client exists and is active and both
\* requirements pass; the first of these to fail decides the answer: 401 for
\* the first three, 403 naming the required items for the last two.
C23_GuardOrder ==
    \A options \in OptionSets, h \in AnyHeader :
        LET v == Authorize(options, h)
            bearer == h.scheme = "Bearer"
            verified == JwtVerify(h.token, jwtSignKey, now)
            id == verified.payload.clientId
            active == id \in DOMAIN clientRows /\ clientRows[id].isActive
            roleOk == RoleRequirement(options, verified.payload.roles)
            permOk == PermissionRequirement(options, verified.payload.permissions)
        IN /\ v.next => bearer /\ verified.isValid /\ active /\ roleOk /\ permOk
           /\ ~bearer => v = Verdict(FALSE, 401, Err("Authentication required", {}))
           /\ bearer /\ ~verified.isValid =>
                 v = Verdict(FALSE, 401, Err("Invalid or expired token", {}))
           /\ bearer /\ verified.isValid /\ ~active => ~v.next /\ v.status = 401
           /\ bearer /\ verified.isValid /\ active /\ ~roleOk =>
                 ~v.next /\ v.status = 403 /\ v.error.items = options.roles
           /\ bearer /\ verified.isValid /\ active /\ roleOk /\ ~permOk =>
                 ~v.next /\ v.status = 403 /\ v.error.items = options.permissions

\* a request that passed every check but the last was answered 403, while an
\* inactive client holds a token of an unmet role
C23_Witness ==
    /\ resp.op = "guarded"
    /\ resp.status = 403
    /\ resp.error.text = "Required any of these permissions"
    /\ \E i \in issued :
         /\ ~clientRows[i.token.payload.clientId].isActive
         /\ "admin" \notin i.token.payload.roles

\* C24 (as claimed): a client whose token carries the role "*" is never turned
\* away on the role check, whatever roles the operation requires.
C24_WildcardPassesRoleCheck ==
    \A i \in issued, options \in OptionSets :
        "*" \in i.token.payload.roles =>
            Authorize(options, Bearer(i.token)).error.text # "Required roles"

\* C25: for a verified token of an active client and an operation that
\* requires a non-empty set of permissions and no role, the guard accepts in
\* the default mode exactly when the token's permissions meet the required
\* set, and with requireAllPermissions exactly when they include it.
C25_PermissionModes ==
    \A i \in issued, options \in OptionSets :
        LET held == i.token.payload.permissions
            id == i.token.payload.clientId
        IN (/\ options.permissions # {}
            /\ options.roles = {}
            /\ JwtVerify(i.token, jwtSignKey, now).isValid
            /\ clientRows[id].isActive) =>
               (Authorize(options, Bearer(i.token)).next <=>
                  IF options.requireAllPermissions
                  THEN options.permissions \subseteq held
                  ELSE options.permissions \cap held # {})

\* a token holding one of two required permissions was refused in the mode
\* that requires all
C25_Witness ==
    /\ resp = Resp("guarded", 403, Err("Required all permissions", {"read", "write"}))
    /\ \E i \in issued :
         /\ i.token.payload.permissions = {"read"}
         /\ JwtVerify(i.token, jwtSignKey, now).isValid
         /\ clientRows[i.token.payload.clientId].isActive

\* C26 (as claimed): a token that JWT.verify reports valid is signed by the
\* process key with HS256, carries an exp claim, and that exp is later than
\* the current time.
C26_ValidTokenHasLiveExpiry ==
    \A t \in Tokens :
        JwtVerify(t, jwtSignKey, now).isValid =>
            /\ t.alg = "HS256"
            /\ t.sig = Hmac(ProcessKey, "HS256", t.payload)
            /\ t.payload.exp # NoExp
            /\ t.payload.exp > now

\* C27 (as claimed): every token issued by authenticate carries an exp claim,
\* equal to its time of issue plus the configured lifetime in seconds, or plus
\* one hour when no lifetime is configured.
C27_IssuedTokenExpiry ==
    \A i \in issued :
        /\ i.token.payload.exp # NoExp
        /\ i.token.payload.exp =
             i.at + (IF jwtLifetime = NoLifetime THEN OneHour ELSE jwtLifetime.digits)

\* the answer to a failed login
InvalidCredentials == Resp("login", 401, Err("Invalid client credentials", {}))

\* C28: a login for a name that is not in the table, a login for a client
\* that is inactive and a login with a wrong secret are all answered with the
\* same status and the same message.
C28_UniformLoginFailure ==
    [][/\ (loginCall.pc = "idle" /\ resp' # resp /\ resp'.op = "login") =>
              resp' = InvalidCredentials
       /\ \A name \in ClientNames, secret \in Passwords :
            (/\ AuthenticateFind(name, secret)
             /\ (FindByName(name) = 0 \/ ~clientRows[FindByName(name)].isActive)) =>
                resp' = InvalidCredentials
       /\ (/\ loginCall.pc = "found"
           /\ loginCall'.pc = "idle"
           /\ ~Argon2Verify(loginCall.row.hashedSecret, loginCall.secret)) =>
              resp' = InvalidCredentials]_vars

\* a client was revoked after a login of its own, and a login was refused
C28_Witness ==
    /\ resp = InvalidCredentials
    /\ \E i \in issued : ~clientRows[i.token.payload.clientId].isActive
    /\ loginCall.pc = "idle"

\* a request with header h to one of the routes kept for administrators
AdminRequest(h, a) ==
    \/ PostDek(h, a)
    \/ GetDeks(h, a)
    \/ \E id \in 1..MaxDek : DeleteDekRoute(h, a, id)
    \/ \E k \in Keks, oldKekId \in Keks \cup {NoOldKek} : RotateKek(h, a, k, oldKekId)
    \/ \E name \in ClientNames, roles \in RoleSets, permissions \in PermSets :
         Register(h, name, "pw", roles, permissions)

\* C29: a request to a DEK route or to the registration of a client whose
\* token does not carry the role "*" is refused, with 403 when the token
\* verifies and names an active client, and the step changes nothing but the
\* response: the DEK table, the cache, the default DEK id, the client table and
\* the calls in flight stay as they were.
C29_AdminRoutesNeedWildcard ==
    [][\A h \in Callers, a \in Admins :
         LET v == JwtVerify(h.token, jwtSignKey, now)
             id == v.payload.clientId
             authenticated == /\ h.scheme = "Bearer"
                              /\ v.isValid
                              /\ id \in DOMAIN clientRows
                              /\ clientRows[id].isActive
         IN ("*" \notin h.token.payload.roles /\ AdminRequest(h, a)) =>
               /\ resp'.status = IF authenticated THEN 403 ELSE 401
               /\ authenticated => resp'.error = Err("Required roles", {"*"})
               /\ UNCHANGED <<kmsVars, dekDbVars, secretVars, ev, clientRows, loginCall, issued>>]_vars

\* after startup, the holder of a token without "*" was refused on a DEK route
C29_Witness ==
    /\ resp = Resp("dek", 403, Err("Required roles", {"*"}))
    /\ boot.pc = "done"
    /\ DOMAIN dekRows # {}
    /\ \E i \in issued :
         /\ "*" \notin i.token.payload.roles
         /\ JwtVerify(i.token, jwtSignKey, now).isValid
         /\ clientRows[i.token.payload.clientId].isActive

\* C30 (as claimed): every wrapped DEK in the table is what the KMS made of a
\* raw key under the row's KEK, received whole: a wrap whose exchange failed a
\* CRC check is never stored.
C30_PersistedWrapsAreChecked ==
    \A d \in DOMAIN dekRows :
        \E raw \in 1..MaxDek : dekRows[d].key = KmsEncrypt(raw, dekRows[d].kekId)

\* ---------------------------------------------------------------------------
\* secret routes: SecretController over SecretService, errors through errorHandler

\* new ServerError(message, httpStatusCode) and a plain new Error(message)
ServerError(message, httpStatusCode) ==
    [server |-> TRUE, message |-> message, httpStatusCode |-> httpStatusCode]
PlainError(message) ==
    [server |-> FALSE, message |-> message, httpStatusCode |-> 0]

\* errorHandler(error, req, res, next): a ServerError answers its own status,
\* anything else answers 500 "Internal Server Error"
errorHandler(op, error) ==
    IF error.server
    THEN Resp(op, error.httpStatusCode, Err(error.message, {}))
    ELSE Resp(op, 500, Err("Internal Server Error", {}))

\* GET /secrets/:identifier, SecretController.get over SecretService.get: the
\* missing row throws ServerError(.., 404) outside the try blocks, a failed
\* decryption is rethrown as a plain Error
SecretGetResponse(isUUID, identifier) ==
    LET found == FindOne(isUUID, identifier)
    IN IF found = {}
       THEN errorHandler("get", ServerError("Secret not found", 404))
       ELSE LET secret == secrets[CHOOSE s \in found : TRUE]
            IN IF DecryptSecret(secret.data, secret.dekId).ok
               THEN Resp("get", 200, NoErr)
               ELSE errorHandler("get", PlainError("Failed to decrypt secret"))

\* PUT /secrets/:id, SecretController.update over SecretService.update, at the
\* write: affectedCount === 0 throws a plain Error inside the try, and the catch
\* rethrows every error as the plain Error "Failed to update secret ..."
SecretUpdateResponse(c, dbOk) ==
    IF SecretUpdate(call[c].sid, call[c].pkg, FALSE, dbOk).ok
    THEN Resp("update", 200, NoErr)
    ELSE errorHandler("update", PlainError("Failed to update secret"))

\* DELETE /secrets/:id, SecretController.delete: service.delete(id) answers
\* deletedCount > 0, and false is thrown as ServerError("Secret not found", 404)
SecretDeleteResponse(id) ==
    IF id \in DOMAIN secrets
    THEN Resp("delete", 204, NoErr)
    ELSE errorHandler("delete", ServerError("Secret not found", 404))

\* C31: an operation addressed to a secret that does not exist (get by id or by
\* name, update by id, delete by id) is answered 404 and leaves the secret
\* table as it was
C31_MissingSecretIs404 ==
    [][/\ \A c \in Clients, id \in SecretIds :
            (GetFind(c, TRUE, id) /\ FindOne(TRUE, id) = {})
                => (SecretGetResponse(TRUE, id).status = 404 /\ secrets' = secrets)
       /\ \A c \in Clients, name \in Names :
            (GetFind(c, FALSE, name) /\ FindOne(FALSE, name) = {})
                => (SecretGetResponse(FALSE, name).status = 404 /\ secrets' = secrets)
       /\ \A c \in Clients :
            (UpdateWrite(c, TRUE) /\ call[c].sid \notin DOMAIN secrets)
                => (SecretUpdateResponse(c, TRUE).status = 404 /\ secrets' = secrets)
       /\ \A c \in Clients, id \in SecretIds :
            (Delete(c, id) /\ id \notin DOMAIN secrets)
                => (SecretDeleteResponse(id).status = 404 /\ secrets' = secrets)
      ]_vars

\* POST /secrets, SecretController.create over SecretService.create, at the
\* insert: every error of Secret.create, the unique violation on name included,
\* is rethrown by the catch as the plain Error "Failed to create secret: ..."
SecretCreateResponse(c, dbOk) ==
    IF dbOk /\ FindOne(FALSE, call[c].name) = {} /\ defaultDekId \in DOMAIN dekRows
    THEN Resp("create", 201, NoErr)
    ELSE errorHandler("create", PlainError("Failed to create secret"))

\* POST /dek, DEKController.create over DEKService.generateDek, at DEK.create:
\* neither the service nor the controller catches the store's rejection (the
\* unique violation on dek.name included), which reaches errorHandler as it is
DekCreateResponse(dbOk) ==
    IF dbOk
    THEN Resp("createDek", 201, NoErr)
    ELSE errorHandler("createDek", PlainError("SequelizeUniqueConstraintError"))

\* C32: creating a secret, a DEK or a client under a name that an existing row
\* of the same kind already has is answered 409, and the existing rows, the DEK
\* cache and the default DEK id stay as they were
C32_DuplicateNameIs409 ==
    [][/\ \A c \in Clients :
            (CreateWrite(c, TRUE) /\ FindOne(FALSE, call[c].name) # {})
                => /\ SecretCreateResponse(c, TRUE).status = 409
                   /\ secrets' = secrets /\ keys' = keys /\ defaultDekId' = defaultDekId
       /\ \A a \in Admins :
            GenerateDekCreate(a, FALSE)
                => /\ DekCreateResponse(FALSE).status = 409
                   /\ dekRows' = dekRows /\ keys' = keys /\ defaultDekId' = defaultDekId
       /\ \A h \in Headers, name \in ClientNames, roles \in RoleSets, permissions \in PermSets :
            (/\ Register(h, name, "pw", roles, permissions)
             /\ Authorize(AdminOnly, h).next
             /\ FindByName(name) # 0)
                => /\ resp'.status = 409
                   /\ clientRows' = clientRows /\ keys' = keys /\ defaultDekId' = defaultDekId
      ]_vars

\* C33: a rotation requested with both newKekId and oldKekId takes for
\* re-wrapping (and counts in total) only the DEK rows whose kekId is oldKekId,
\* so that every row under another KEK keeps its wrapped key, kekId and version
C33_RotationTakesOldKekRowsOnly ==
    [][\A h \in Callers, a \in Admins, newKekId \in Keks, oldKekId \in Keks :
          (/\ RotateKek(h, a, newKekId, oldKekId)
           /\ Authorize(AdminOnly, h).next
           /\ kekCall'[a].pc = "loop")
              => \A i \in 1..Len(kekCall'[a].deks) : kekCall'[a].deks[i].kekId = oldKekId
      ]_vars

\* the row's wrapped key opens under the KEK its kekId column names
OpensUnderOwnKek(d) == KmsDecrypt(dekRows[d].key, dekRows[d].kekId).ok

\* C34: every unwrap of a persisted DEK row is made under the KEK the row's
\* kekId names, so whenever each row opens under its own KEK the fetches of
\* startup and of KEK rotation unwrap all the rows, whatever the default KEK is
C34_UnwrapUnderRowKek ==
    [][(\A d \in DOMAIN dekRows : OpensUnderOwnKek(d))
          => /\ StartupFetch => boot'.pc = "fetched"
             /\ \A a \in Admins, k \in Keks : KekFetch(a, k) => kekCall'[a].pc = "loop"
      ]_vars

\* C35: once an update of a secret with plaintext P2 has succeeded, every later
\* get of that secret returns P2 (until the next update or delete): a background
\* rotation that captured the earlier plaintext never writes it back
C35_GetReturnsUpdated ==
    (ev.op = "get" /\ ev.ok /\ ev.id \in DOMAIN acked /\ acked[ev.id].by = "update")
        => ev.val = acked[ev.id].plain

\* C36: for every persisted DEK row the kekId column names the KEK that
\* produced the row's wrapped key, also when a KEK rotation changes the default
\* KEK between generateDek's wrap and its insert
C36_KekIdNamesWrappingKek ==
    \A d \in DOMAIN dekRows : dekRows[d].key.kek = dekRows[d].kekId

\* a step that calls the remote KMS client: `this.#client.encrypt` in the loop
\* of reencryptAllDeksWithNewKek, or the one encryptDEK makes outside
\* development mode
RemoteKmsCall ==
    \/ \E a \in Admins, answer \in KmsAnswers : KekEncrypt(a, answer)
    \/ ~dev /\ \E a \in Admins, answer \in KmsAnswers : GenerateDekWrap(a, answer)

\* C37: in development mode every wrap, unwrap and re-wrap of a DEK, those of
\* a KEK rotation included, goes through the local KEK: no step calls the remote
\* KMS client, and every persisted wrapped key is sealed under the local KEK
C37_DevModeStaysLocal ==
    [][dev => /\ ~RemoteKmsCall
              /\ \A d \in DOMAIN dekRows' : dekRows'[d].key.kek = LocalKek]_vars

\* the DEKs a rotation in progress has listed in failures
FailedDeks(a) == { kekCall[a].failures[i] : i \in 1..Len(kekCall[a].failures) }

\* C38: in the result of a KEK rotation total = success + number of failures;
\* the rotation has written nothing to the row of a DEK it lists in failures
\* (the wrapped key, kekId and version are as it fetched them), and it counts a
\* DEK in success only after its write gave the row kekId = newKekId
C38_RotationResultIsExact ==
    [][\A a \in Admins :
         /\ kekCall'[a].pc = "loop"
              => kekCall'[a].success + Len(kekCall'[a].failures) = kekCall'[a].idx - 1
         /\ (kekCall[a].pc = "loop" /\ kekCall'[a].pc = "idle")
              => /\ Len(kekCall[a].deks) = kekCall[a].success + Len(kekCall[a].failures)
                 /\ ev' = Event("rotateToNewKek", TRUE, kekCall[a].success,
                                Len(kekCall[a].failures))
         /\ (kekCall'[a].pc # "idle" /\ kekCall'[a].failures # kekCall[a].failures)
              => /\ kekCall'[a].failures = Append(kekCall[a].failures, CurrentDek(a).id)
                 /\ kekCall'[a].success = kekCall[a].success
                 /\ dekRows' = dekRows
         /\ (kekCall[a].pc # "idle" /\ kekCall'[a] # kekCall[a] /\ dekRows' # dekRows)
              => /\ kekCall[a].pc = "encrypted"
                 /\ DOMAIN dekRows' = DOMAIN dekRows
                 /\ \A d \in DOMAIN dekRows \ {CurrentDek(a).id} : dekRows'[d] = dekRows[d]
                 /\ dekRows'[CurrentDek(a).id].kekId = kekCall[a].newKekId
                 /\ \/ kekCall'[a].pc = "importing"
                    \/ kekCall'[a].success = kekCall[a].success + 1
         /\ (kekCall[a].pc = "importing" /\ kekCall'[a] # kekCall[a])
              => kekCall'[a].success = kekCall[a].success + 1
         /\ (kekCall'[a].pc # "idle" /\ kekCall'[a].success # kekCall[a].success)
              => /\ kekCall'[a].success = kekCall[a].success + 1
                 /\ kekCall[a].pc \in {"encrypted", "importing"}
                 /\ CurrentDek(a).id \in DOMAIN dekRows'
                      => (kekCall[a].pc = "encrypted"
                            => dekRows'[CurrentDek(a).id].kekId = kekCall[a].newKekId)
      ]_vars

C38_Witness ==
    \E a \in Admins :
        /\ kekCall[a].pc = "loop"
        /\ kekCall[a].idx > Len(kekCall[a].deks)
        /\ kekCall[a].success = 1
        /\ Len(kekCall[a].failures) = 1
        /\ kekCall[a].newKekId # defaultKekId
        /\ \E d \in FailedDeks(a) : dekRows[d].kekId = defaultKekId

\* C39: a secret deleted while a background rotation of it is pending is not
\* brought back by the rotation: a secret id enters the table only through a
\* successful create, and the write of a rotation whose secret is gone changes
\* no row and settles as a failure
C39_RotationNeverRecreates ==
    [][/\ \A s \in SecretIds :
            (s \notin DOMAIN secrets /\ s \in DOMAIN secrets')
                => (ev'.op = "create" /\ ev'.ok /\ ev'.id = s)
       /\ \A i \in 1..MaxSpawn, dbOk \in BOOLEAN :
            (/\ i \in 1..Len(rotations)
             /\ rotations[i].pc = "encrypted"
             /\ rotations[i].sid \notin DOMAIN secrets
             /\ RotationWrite(i, dbOk))
                => (/\ secrets' = secrets
                    /\ ev' = Event("rotation", FALSE, rotations[i].sid, rotations[i].n))
      ]_vars

C39_Witness ==
    /\ ev.op = "rotation" /\ ~ev.ok
    /\ ev.id \in 1..sidSeq
    /\ ev.id \notin DOMAIN secrets
    /\ ev.id \notin DOMAIN acked
    /\ defaultDekId \in DOMAIN keys
    /\ rotations = <<>>

\* C40: whatever FolderService create, update and delete calls have run, and
\* however they interleaved, the parent relation of the folder table has no
\* cycle: getPath ends on every folder (so two overlapping updates that each
\* move a folder under the other never both take effect)
C40_FolderTreeHasNoCycle ==
    \A f \in DOMAIN folders : GetPath(f).ends

====
